---- MODULE Spec2Model ----
(***************************************************************************)
(* Model of the ASCII/Braille rendering pipeline (asciiPipeline.worker.ts, *)
(* image-processing.ts) and of the AsciiWorld component that drives it.    *)
(* Indices: the code's 0-based index i is element i+1 of a sequence.       *)
(* Characters are code points (space = 32, newline = 10).                  *)
(***************************************************************************)
EXTENDS Integers, Sequences, FiniteSets, TLC

\* ---- bounds of the model ----
MaxDim == 2
MaxSample == 2
MaxRadius == 1
MaxMaskPixels == 5
MaxPasses == 2
MaxBoxDim == 3
MaxPixels == 3
MaxSession == 3
MaxBraillePixels == 8
MaxChanges == 2
MaxSobelPixels == 12
MaxLit == 2
MaxDitherPixels == 6
MaxLocalPixels == 4
MaxAccessPixels == 6
MaxPosterPixels == 2

\* ---- program constants ----
\* setDetail(60) / setDetail(120), the column counts, in units of 60 columns
DetailCompact == 1
DetailStandard == 2

\* refineMasks' edge threshold 0.35, in hundredths (gradients are modelled
\* in hundredths of the normalised [0,1] range)
EdgeThreshold == 35
\* significant bits of a Float32Array element
MantissaBits == 24
\* default gThresh = 0.2 of the two classifiers, in hundredths
GateThreshold == 20
\* the debounce delay of the conversion effect, in milliseconds
DebounceDelay == 200

VARIABLES integ, morph, fbox, braille, inbox, call, served, posted,
          ui, runs, timer, delivered, changes, sobel, dither, access, local, poster

vars == <<integ, morph, fbox, braille, inbox, call, served, posted,
          ui, runs, timer, delivered, changes, sobel, dither, access, local, poster>>

workerVars == <<inbox, call, served, posted>>
uiVars == <<ui, runs, timer, delivered, changes>>
stageVars == <<sobel, dither, access, local, poster>>

Idle == [pc |-> "idle"]

\* ---- Integral-image engine ----

Max2(a, b) == IF a > b THEN a ELSE b
Min2(a, b) == IF a < b THEN a ELSE b

RECURSIVE buildIntegralLoop(_, _, _, _, _, _)
buildIntegralLoop(Y, width, height, k, rowSum, I) ==
  IF k >= width * height THEN I
  ELSE LET x == k % width
           y == k \div width
           rs == (IF x = 0 THEN 0 ELSE rowSum) + Y[k + 1]
           above == IF y > 0 THEN I[(y - 1) * width + x + 1] ELSE 0
       IN buildIntegralLoop(Y, width, height, k + 1, rs, Append(I, rs + above))

buildIntegralImage(Y, width, height) ==
  buildIntegralLoop(Y, width, height, 0, 0, <<>>)

boxSum(I, width, height, x, y, r) ==
  LET x0 == Max2(0, x - r)
      y0 == Max2(0, y - r)
      x1 == Min2(width - 1, x + r)
      y1 == Min2(height - 1, y + r)
      A == I[y0 * width + x0 + 1]
      B == I[y0 * width + x1 + 1]
      C == I[y1 * width + x0 + 1]
      D == I[y1 * width + x1 + 1]
  IN D - B - C + A

\* ---- Morphological refiner ----

ClampX(width, x) == Min2(width - 1, Max2(0, x))

\* mask[clamped (x+kx, y+ky)] of the 3x3 neighbourhood of pixel i (1-based)
neighbourhood(mask, width, height, i) ==
  LET x == (i - 1) % width
      y == (i - 1) \div width
  IN { mask[ClampX(height, y + ky) * width + ClampX(width, x + kx) + 1] :
         ky \in -1..1, kx \in -1..1 }

RECURSIVE erodeUngatedLoop(_, _, _, _, _)
erodeUngatedLoop(mask, width, height, i, out) ==
  IF i > width * height THEN out
  ELSE erodeUngatedLoop(mask, width, height, i + 1,
         Append(out, IF 0 \in neighbourhood(mask, width, height, i) THEN 0 ELSE 1))

erodeMaskUngated(mask, width, height, edgeMask) ==
  erodeUngatedLoop(mask, width, height, 1, <<>>)

RECURSIVE erodeLoop(_, _, _, _, _, _)
erodeLoop(mask, width, height, edgeMask, i, out) ==
  IF i > width * height THEN out
  ELSE erodeLoop(mask, width, height, edgeMask, i + 1,
         Append(out, IF edgeMask[i] # 0 THEN mask[i]
                     ELSE IF 0 \in neighbourhood(mask, width, height, i) THEN 0 ELSE 1))

erodeMask(mask, width, height, edgeMask) ==
  erodeLoop(mask, width, height, edgeMask, 1, <<>>)

RECURSIVE dilateLoop(_, _, _, _, _, _)
dilateLoop(mask, width, height, edgeMask, i, out) ==
  IF i > width * height THEN out
  ELSE dilateLoop(mask, width, height, edgeMask, i + 1,
         Append(out, IF edgeMask[i] # 0 THEN mask[i]
                     ELSE IF 1 \in neighbourhood(mask, width, height, i) THEN 1 ELSE 0))

\* a dilation that ignores the edge gate
dilateMaskUngated(mask, width, height, edgeMask) ==
  dilateLoop(mask, width, height, [i \in DOMAIN edgeMask |-> 0], 1, <<>>)

dilateMask(mask, width, height, edgeMask) ==
  dilateLoop(mask, width, height, edgeMask, 1, <<>>)

\* the pass loop of refineMasks; returns both transient masks
RECURSIVE refinePasses(_, _, _, _, _, _, _)
refinePasses(bg, fg, width, height, edgeMask, p, passes) ==
  IF p >= passes THEN [bg |-> bg, fg |-> fg]
  ELSE LET bg1 == dilateMask(bg, width, height, edgeMask)
           bg2 == erodeMask(bg1, width, height, edgeMask)
           fg1 == erodeMask(fg, width, height, edgeMask)
           fg2 == dilateMask(fg1, width, height, edgeMask)
       IN refinePasses(bg2, fg2, width, height, edgeMask, p + 1, passes)

\* the values of (bg, fg) at the head of the pass loop: before the first pass
\* and after each complete pass
RECURSIVE refineTrace(_, _, _, _, _, _)
refineTrace(trace, width, height, edgeMask, p, passes) ==
  IF p >= passes THEN trace
  ELSE LET cur == trace[Len(trace)]
       IN refineTrace(Append(trace, refinePasses(cur.bg, cur.fg, width, height, edgeMask, p, p + 1)),
                      width, height, edgeMask, p + 1, passes)

refineEdgeMask(grad) == [i \in DOMAIN grad |-> IF grad[i] > EdgeThreshold THEN 1 ELSE 0]

\* lines 316-317
fgMaskOf(bgMask) == [i \in DOMAIN bgMask |-> IF bgMask[i] # 0 THEN 0 ELSE 1]

refineMasks(bgMask, width, height, grad, passes) ==
  IF passes <= 0 THEN bgMask
  ELSE LET edgeMask == refineEdgeMask(grad)
           fgMask == fgMaskOf(bgMask)
       IN refinePasses(bgMask, fgMask, width, height, edgeMask, 0, passes).bg

\* ---- Bounding box (image-processing.ts) ----
\* bg[i] = 1 iff isBackground holds of pixel i

rowIsBackground(bg, w, y) == \A x \in 0..(w - 1) : bg[y * w + x + 1] = 1
colIsBackground(bg, w, h, x) == \A y \in 0..(h - 1) : bg[y * w + x + 1] = 1

RECURSIVE trimTop(_, _, _, _)
trimTop(bg, w, top, bottom) ==
  IF top < bottom /\ rowIsBackground(bg, w, top)
  THEN trimTop(bg, w, top + 1, bottom) ELSE top

RECURSIVE trimBottom(_, _, _, _)
trimBottom(bg, w, top, bottom) ==
  IF bottom - 1 > top /\ rowIsBackground(bg, w, bottom - 1)
  THEN trimBottom(bg, w, top, bottom - 1) ELSE bottom

RECURSIVE trimLeft(_, _, _, _, _)
trimLeft(bg, w, h, left, right) ==
  IF left < right /\ colIsBackground(bg, w, h, left)
  THEN trimLeft(bg, w, h, left + 1, right) ELSE left

RECURSIVE trimRight(_, _, _, _, _)
trimRight(bg, w, h, left, right) ==
  IF right - 1 > left /\ colIsBackground(bg, w, h, right - 1)
  THEN trimRight(bg, w, h, left, right - 1) ELSE right

bboxMarginUnclamped(w, h, left, top, right, bottom) ==
  IF left >= right \/ top >= bottom
  THEN [left |-> 0, top |-> 0, right |-> w, bottom |-> h]
  ELSE [left |-> left - 1, top |-> top - 1, right |-> right + 1, bottom |-> bottom + 1]

bboxCollapsedKept(w, h, left, top, right, bottom) ==
  IF left >= right \/ top >= bottom
  THEN [left |-> left, top |-> top, right |-> right, bottom |-> bottom]
  ELSE [left |-> Max2(0, left - 1), top |-> Max2(0, top - 1),
        right |-> Min2(w, right + 1), bottom |-> Min2(h, bottom + 1)]

\* the trimmed box returned without its margin
bboxNoMargin(w, h, left, top, right, bottom) ==
  IF left >= right \/ top >= bottom
  THEN [left |-> 0, top |-> 0, right |-> w, bottom |-> h]
  ELSE [left |-> left, top |-> top, right |-> right, bottom |-> bottom]

\* lines 95-102: the fallback and the margin
bboxResult(w, h, left, top, right, bottom) ==
  IF left >= right \/ top >= bottom
  THEN [left |-> 0, top |-> 0, right |-> w, bottom |-> h]
  ELSE [left |-> Max2(0, left - 1), top |-> Max2(0, top - 1),
        right |-> Min2(w, right + 1), bottom |-> Min2(h, bottom + 1)]

computeForegroundBBox(w, h, bg) ==
  LET top == trimTop(bg, w, 0, h)
      bottom == trimBottom(bg, w, top, h)
      left == trimLeft(bg, w, h, 0, w)
      right == trimRight(bg, w, h, left, w)
  IN bboxResult(w, h, left, top, right, bottom)

\* ---- Arithmetic of the JavaScript runtime, on exact rationals num/den ----

\* Math.floor(num/den), den > 0
Floor(num, den) == IF num >= 0 THEN num \div den ELSE -((-num + den - 1) \div den)

\* Math.ceil(num/den), den > 0
Ceil(num, den) == -Floor(-num, den)

\* Math.round(num/den): nearest integer, ties towards +infinity
MathRound(num, den) == Floor(2 * num + den, 2 * den)

\* store of num/den into a Uint8ClampedArray: clamp to [0,255], nearest
\* integer, ties to even
ToUint8Clamped(num, den) ==
  LET fl == Floor(num, den)
      rem == num - fl * den
      rnd == IF 2 * rem < den THEN fl
             ELSE IF 2 * rem > den THEN fl + 1
             ELSE IF fl % 2 = 0 THEN fl ELSE fl + 1
  IN Max2(0, Min2(255, rnd))

RECURSIVE Pow(_, _)
Pow(b, e) == IF e = 0 THEN 1 ELSE b * Pow(b, e - 1)

\* evaluates every element of a function on 1..n once
Force(f, n) == SubSeq(f, 1, n)

\* ---- Worker pipeline: inversion, luminance, background ----
\* a pixel is <<r, g, b, a>>; data is the sequence of the width*height pixels

\* an inversion that runs over all four channels
invertDataAllChannels(data) ==
  Force([i \in DOMAIN data |->
           <<255 - data[i][1], 255 - data[i][2], 255 - data[i][3], 255 - data[i][4]>>],
        Len(data))

invertData(data) ==
  Force([i \in DOMAIN data |->
           <<255 - data[i][1], 255 - data[i][2], 255 - data[i][3], data[i][4]>>],
        Len(data))

\* 1000 * (0.299 r + 0.587 g + 0.114 b)
luminance1000(p) == 299 * p[1] + 587 * p[2] + 114 * p[3]

computeLuminance(data, width, height) ==
  Force([i \in 1..(width * height) |-> luminance1000(data[i])], width * height)

\* detectBackground: 0-based pixel indices sampled on the border, in order,
\* with repetitions; an index outside the buffer reads undefined
borderSamples(w, h) ==
  LET RECURSIVE rowsPart(_, _)
      rowsPart(x, acc) ==
        IF x >= w THEN acc
        ELSE rowsPart(x + 1, acc \o <<0 * w + x, (h - 1) * w + x>>)
      RECURSIVE colsPart(_, _)
      colsPart(y, acc) ==
        IF y >= h - 1 THEN acc
        ELSE colsPart(y + 1, acc \o <<y * w + 0, y * w + (w - 1)>>)
  IN colsPart(1, rowsPart(0, <<>>))

transparentThresh == 32
opaqueThresh == 220
whiteThresh == 245
blackThresh == 10

\* samplePixel's classification of one sample
sampleClass(data, idx) ==
  IF idx < 0 \/ idx >= Len(data) THEN "none"
  ELSE LET p == data[idx + 1]
       IN IF p[4] < transparentThresh THEN "trans"
          ELSE IF luminance1000(p) >= whiteThresh * 1000 /\ p[4] >= opaqueThresh THEN "white"
          ELSE IF luminance1000(p) <= blackThresh * 1000 /\ p[4] >= opaqueThresh THEN "black"
          ELSE "none"

\* the predicate returned by detectBackground, named by its kind
detectBackground(data, w, h) ==
  LET samples == borderSamples(w, h)
      count(c) == Cardinality({ j \in DOMAIN samples : sampleClass(data, samples[j]) = c })
      trans == count("trans")
      white == count("white")
      black == count("black")
      n == Len(samples)
  IN IF trans >= Max2(white, black) /\ 10 * trans > 3 * n THEN "transparent"
     ELSE IF white >= Max2(black, trans) /\ 10 * white > 3 * n THEN "white"
     ELSE IF black >= Max2(white, trans) /\ 10 * black > 3 * n THEN "black"
     ELSE "never"

isBackground(kind, p) ==
  CASE kind = "transparent" -> p[4] < transparentThresh
    [] kind = "white" -> luminance1000(p) >= whiteThresh * 1000 /\ p[4] >= opaqueThresh
    [] kind = "black" -> luminance1000(p) <= blackThresh * 1000 /\ p[4] >= opaqueThresh
    [] OTHER -> FALSE

\* a mask buffer kept across invocations in which only the 1s are written
buildBgMaskSticky(data, w, h, kind) ==
  Force([i \in 1..(w * h) |->
           IF isBackground(kind, data[i])
              \/ (call # Idle /\ i \in DOMAIN call.bgMask /\ call.bgMask[i] = 1)
           THEN 1 ELSE 0], w * h)

buildBgMask(data, w, h, kind) ==
  Force([i \in 1..(w * h) |-> IF isBackground(kind, data[i]) THEN 1 ELSE 0], w * h)

\* ---- Tone pipeline ----

\* gammaLUT[i] for an integer exponent gamma >= 1: 255 * (i/255)^gamma
gammaLUT(gamma, i) == ToUint8Clamped(Pow(i, gamma), Pow(255, gamma - 1))

gammaGray(Y, gamma) ==
  Force([i \in DOMAIN Y |->
           gammaLUT(gamma, Max2(0, Min2(255, MathRound(Y[i], 1000))))], Len(Y))

\* the quotient truncated instead of rounded
posterizeGrayFloor(buf, levelsIn) ==
  LET levels == IF levelsIn <= 1 THEN 2 ELSE levelsIn
  IN Force([i \in DOMAIN buf |->
              ToUint8Clamped(Floor(buf[i] * (levels - 1), 255) * 255, levels - 1)],
           Len(buf))

posterizeGray(buf, levelsIn) ==
  LET levels == IF levelsIn <= 1 THEN 2 ELSE levelsIn
  IN Force([i \in DOMAIN buf |->
              ToUint8Clamped(MathRound(buf[i] * (levels - 1), 255) * 255, levels - 1)],
           Len(buf))

\* the element at position Floor(windowSize/2) of the sorted window
medianOf(win) ==
  LET mid == Floor(Len(win), 2)
      atMost(v) == Cardinality({ j \in DOMAIN win : win[j] <= v })
      vals == { win[j] : j \in DOMAIN win }
  IN CHOOSE v \in vals :
       /\ atMost(v) >= mid + 1
       /\ \A u \in vals : u < v => atMost(u) < mid + 1

medianFilterGray(buf, width, height, radius) ==
  Force([k \in 1..(width * height) |->
           LET x == (k - 1) % width
               y == (k - 1) \div width
               side == 2 * radius + 1
               win == [n \in 1..(side * side) |->
                         LET i == ((n - 1) % side) - radius
                             j == ((n - 1) \div side) - radius
                         IN buf[ClampX(height, y + j) * width + ClampX(width, x + i) + 1]]
           IN medianOf(win)], width * height)

\* the weights of the two buffers exchanged
blendGraySwapped(preGray, origGray, preprocessStrength) ==
  LET s == Max2(0, Min2(10, preprocessStrength))
  IN Force([i \in DOMAIN origGray |->
              Max2(0, Min2(255, MathRound(preGray[i] * s + origGray[i] * (10 - s), 10)))],
           Len(origGray))

\* lines 456-460: blend of the simplified and the original tone buffer
blendGray(preGray, origGray, preprocessStrength) ==
  LET s == Max2(0, Min2(10, preprocessStrength))
  IN Force([i \in DOMAIN origGray |->
              Max2(0, Min2(255, MathRound(preGray[i] * (10 - s) + origGray[i] * s, 10)))],
           Len(origGray))

\* lines 448-454: the level count of the posterize step
posterizeLevels(compactMode) == IF compactMode THEN 2 ELSE 3

preprocessGray(grayBuf, w, h, compactMode, preprocessStrength) ==
  LET posterized == posterizeGray(grayBuf, posterizeLevels(compactMode))
      preGray == medianFilterGray(posterized, w, h, 1)
  IN blendGray(preGray, grayBuf, preprocessStrength)

\* ---- Floyd-Steinberg error diffusion (image-processing.ts) ----

\* the whole error added to the neighbour
diffuseWholeError(buf, bgMask, exists, j, err, weight) ==
  IF exists /\ bgMask[j + 1] = 0
  THEN [buf EXCEPT ![j + 1] = ToUint8Clamped(buf[j + 1] + err, 1)]
  ELSE buf

\* the share added to the neighbour whatever its classification
diffuseIgnoringMask(buf, bgMask, exists, j, err, weight) ==
  IF exists
  THEN [buf EXCEPT ![j + 1] = ToUint8Clamped(16 * buf[j + 1] + err * weight, 16)]
  ELSE buf

\* grayBuf[j] = clamp(grayBuf[j] + err * weight/16) when the neighbour exists
\* and is foreground
diffuse(buf, bgMask, exists, j, err, weight) ==
  IF exists /\ bgMask[j + 1] = 0
  THEN [buf EXCEPT ![j + 1] = ToUint8Clamped(16 * buf[j + 1] + err * weight, 16)]
  ELSE buf

\* an iteration that quantises downwards
floydSteinbergVisitTruncating(buf, bgMask, w, h, step, i) ==
  IF bgMask[i + 1] # 0 THEN buf
  ELSE LET x == i % w
           y == i \div w
           old == buf[i + 1]
           q == (old \div step) * step
           err == old - q
           b0 == [buf EXCEPT ![i + 1] = ToUint8Clamped(q, 1)]
           b1 == diffuse(b0, bgMask, x + 1 < w, i + 1, err, 7)
           b2 == diffuse(b1, bgMask, x - 1 >= 0 /\ y + 1 < h, i + w - 1, err, 3)
           b3 == diffuse(b2, bgMask, y + 1 < h, i + w, err, 5)
       IN diffuse(b3, bgMask, x + 1 < w /\ y + 1 < h, i + w + 1, err, 1)

\* an iteration that also pushes a share to the left neighbour, already visited
floydSteinbergVisitBackward(buf, bgMask, w, h, step, i) ==
  IF bgMask[i + 1] # 0 THEN buf
  ELSE LET x == i % w
           y == i \div w
           old == buf[i + 1]
           q == MathRound(old, step) * step
           err == old - q
           b0 == [buf EXCEPT ![i + 1] = ToUint8Clamped(q, 1)]
           b1 == diffuse(b0, bgMask, x + 1 < w, i + 1, err, 7)
           b2 == diffuse(b1, bgMask, x - 1 >= 0, i - 1, err, 3)
           b3 == diffuse(b2, bgMask, y + 1 < h, i + w, err, 5)
       IN diffuse(b3, bgMask, x + 1 < w /\ y + 1 < h, i + w + 1, err, 1)

\* lines 128-138: one iteration of the loop body, at pixel i
floydSteinbergVisit(buf, bgMask, w, h, step, i) ==
  IF bgMask[i + 1] # 0 THEN buf
  ELSE LET x == i % w
           y == i \div w
           old == buf[i + 1]
           q == MathRound(old, step) * step
           err == old - q
           b0 == [buf EXCEPT ![i + 1] = ToUint8Clamped(q, 1)]
           b1 == diffuse(b0, bgMask, x + 1 < w, i + 1, err, 7)
           b2 == diffuse(b1, bgMask, x - 1 >= 0 /\ y + 1 < h, i + w - 1, err, 3)
           b3 == diffuse(b2, bgMask, y + 1 < h, i + w, err, 5)
       IN diffuse(b3, bgMask, x + 1 < w /\ y + 1 < h, i + w + 1, err, 1)

RECURSIVE floydSteinbergLoop(_, _, _, _, _, _)
floydSteinbergLoop(buf, bgMask, w, h, step, i) ==
  IF i >= w * h THEN buf
  ELSE floydSteinbergLoop(floydSteinbergVisit(buf, bgMask, w, h, step, i),
                          bgMask, w, h, step, i + 1)

\* the buffer before the loop and after each of its iterations
RECURSIVE floydSteinbergTrace(_, _, _, _, _, _)
floydSteinbergTrace(trace, bgMask, w, h, step, i) ==
  IF i >= w * h THEN trace
  ELSE floydSteinbergTrace(
         Append(trace, floydSteinbergVisit(trace[Len(trace)], bgMask, w, h, step, i)),
         bgMask, w, h, step, i + 1)

floydSteinbergRefine(grayBuf, bgMask, w, h, step) ==
  floydSteinbergLoop(grayBuf, bgMask, w, h, step, 0)

\* ---- Glyph mapper and Braille packer ----

Space == 32
Newline == 10
BrailleBase == 10240

dotMapLinear == <<1, 2, 3, 4, 5, 6, 7, 8>>

dotMap == <<1, 2, 3, 7, 4, 5, 6, 8>>

\* brailleCode |= bit is an addition here: every dot is visited once
brailleCell(grayBuf, width, height, x, y) ==
  LET bit(dotIndex) ==
        LET col == dotIndex \div 4
            row == dotIndex % 4
            px == x + col
            py == y + row
        IN IF px < width /\ py < height /\ grayBuf[py * width + px + 1] > 127
           THEN Pow(2, dotMap[dotIndex + 1] - 1) ELSE 0
      RECURSIVE pack(_, _)
      pack(dotIndex, code) ==
        IF dotIndex >= 8 THEN code ELSE pack(dotIndex + 1, code + bit(dotIndex))
  IN pack(0, BrailleBase)

generateBrailleArt(grayBuf, width, height, bbox) ==
  LET startY == Floor(bbox.top, 4) * 4
      endY == Ceil(bbox.bottom, 4) * 4
      startX == Floor(bbox.left, 2) * 2
      endX == Ceil(bbox.right, 2) * 2
      RECURSIVE cols(_, _, _)
      cols(x, y, art) ==
        IF x >= endX THEN art
        ELSE cols(x + 2, y, Append(art, brailleCell(grayBuf, width, height, x, y)))
      RECURSIVE rows(_, _)
      rows(y, art) ==
        IF y >= endY THEN art
        ELSE rows(y + 4, Append(cols(startX, y, art), Newline))
  IN rows(startY, <<>>)

\* lines 464-465
setLenOf(charSet) == IF Len(charSet) = 0 THEN 1 ELSE Len(charSet)
stepOf(setLen) == Max2(1, Floor(255, setLen))

charMapFloor(charSet, setLen, step, i) ==
  LET charIdx == Max2(0, Min2(setLen - 1, Floor(i, step)))
  IN IF charIdx + 1 \in DOMAIN charSet THEN charSet[charIdx + 1] ELSE Space

\* charSet[charIdx] without the substitute for a missing glyph
charMapNoSubstitute(charSet, setLen, step, i) ==
  LET charIdx == Max2(0, Min2(setLen - 1, MathRound(i, step)))
  IN IF charIdx + 1 \in DOMAIN charSet THEN charSet[charIdx + 1] ELSE 0

\* charMap[i], lines 471-475
charMap(charSet, setLen, step, i) ==
  LET charIdx == Max2(0, Min2(setLen - 1, MathRound(i, step)))
  IN IF charIdx + 1 \in DOMAIN charSet THEN charSet[charIdx + 1] ELSE Space

\* lines 487-502: one row of glyphs per y, rows joined by a newline
regularArt(grayBuf, bgMask, w, bbox, charSet, setLen, step) ==
  LET RECURSIVE rowChars(_, _, _)
      rowChars(x, y, acc) ==
        IF x >= bbox.right THEN acc
        ELSE rowChars(x + 1, y,
               Append(acc, IF bgMask[y * w + x + 1] # 0 THEN Space
                           ELSE charMap(charSet, setLen, step, grayBuf[y * w + x + 1])))
      RECURSIVE join(_, _)
      join(y, acc) ==
        IF y >= bbox.bottom THEN acc
        ELSE join(y + 1, (IF y > bbox.top THEN Append(acc, Newline) ELSE acc)
                           \o rowChars(bbox.left, y, <<>>))
  IN join(bbox.top, <<>>)

\* ---- self.onmessage: the values computed by one invocation ----
\* evt = [width, height, data, options]

\* the box chosen without regard to compactMode
selectBBoxCropped(compactMode, w, h, bgMask) == computeForegroundBBox(w, h, bgMask)

\* lines 433-435: compact mode keeps the full frame, otherwise the foreground box
selectBBox(compactMode, w, h, bgMask) ==
  IF compactMode
  THEN [left |-> 0, top |-> 0, right |-> w, bottom |-> h]
  ELSE computeForegroundBBox(w, h, bgMask)

\* dithering applied whatever the glyph set is
ditherStageAlways(gray1, bgMask, w, h, step, dithering, charSetName) ==
  IF dithering THEN floydSteinbergRefine(gray1, bgMask, w, h, step) ELSE gray1

\* lines 466-468: error diffusion runs only for glyph sets other than braille
ditherStage(gray1, bgMask, w, h, step, dithering, charSetName) ==
  IF dithering /\ charSetName # "braille"
  THEN floydSteinbergRefine(gray1, bgMask, w, h, step)
  ELSE gray1

\* lines 479-484: the box expanded outward to whole 2x4 cells
alignedBox(bbox) ==
  [left |-> Floor(bbox.left, 2) * 2, top |-> Floor(bbox.top, 4) * 4,
   right |-> Ceil(bbox.right, 2) * 2, bottom |-> Ceil(bbox.bottom, 4) * 4]

onmessage(evt) ==
  LET options == evt.options
      w == evt.width
      h == evt.height
      data == IF options.invertColors THEN invertData(evt.data) ELSE evt.data
      Y == computeLuminance(data, w, h)
      kind == detectBackground(data, w, h)
      bgMask == buildBgMask(data, w, h, kind)
      bbox == selectBBox(options.compactMode, w, h, bgMask)
      gray0 == gammaGray(Y, options.gamma)
      gray1 == IF options.preprocess
               THEN preprocessGray(gray0, w, h, options.compactMode, options.preprocessStrength)
               ELSE gray0
      setLen == setLenOf(options.charSet)
      step == stepOf(setLen)
      grayBuf == ditherStage(gray1, bgMask, w, h, step, options.dithering,
                             options.charSetName)
      brailleBbox == alignedBox(bbox)
      ascii == IF options.charSetName = "braille"
               THEN generateBrailleArt(grayBuf, w, h, brailleBbox)
               ELSE regularArt(grayBuf, bgMask, w, bbox, options.charSet, setLen, step)
  IN [data |-> data, Y |-> Y, bgMask |-> bgMask, bbox |-> bbox, gray0 |-> gray0,
      gray1 |-> gray1, grayBuf |-> grayBuf, ascii |-> ascii]

\* ---- Windowed statistics and the two adaptive classifiers ----
\* a mean is kept as the ratio [num, den]; t, k and gradients are in hundredths

RECURSIVE squares(_, _)
squares(Y, acc) ==
  IF Len(acc) = Len(Y) THEN acc
  ELSE squares(Y, Append(acc, Y[Len(acc) + 1] * Y[Len(acc) + 1]))

\* lines 123-139: the tables of the samples and of their squares
buildIntegralImages(Y, width, height) ==
  [I |-> buildIntegralImage(Y, width, height),
   I2 |-> buildIntegralImage(squares(Y, <<>>), width, height)]

\* lines 153-173, up to the divisions: the two corner sums and the clipped area
boxStats(I, I2, width, height, x, y, r) ==
  LET x0 == Max2(0, x - r)
      y0 == Max2(0, y - r)
      x1 == Min2(width - 1, x + r)
      y1 == Min2(height - 1, y + r)
  IN [sum |-> boxSum(I, width, height, x, y, r),
      sum2 |-> boxSum(I2, width, height, x, y, r),
      area |-> Max2(1, (x1 - x0 + 1) * (y1 - y0 + 1))]

areaBase(radius) == (2 * radius + 1) * (2 * radius + 1)

\* lines 182 and 253: boxSum(...) / areaBase
meanOverBase(I, width, height, x, y, radius) ==
  [num |-> boxSum(I, width, height, x, y, radius), den |-> areaBase(radius)]

\* lines 176-187
computeLocalMean(Y, width, height, radius) ==
  LET I == buildIntegralImage(Y, width, height)
  IN Force([j \in 1..(width * height) |->
              meanOverBase(I, width, height, (j - 1) % width, (j - 1) \div width, radius)],
           width * height)

\* grad is <<>> when the optional field is not passed
gated(grad, j) == grad # <<>> /\ grad[j] > GateThreshold

\* lines 247-265: val >= mean * (1 - t), a gated pixel is foreground
computeLocalBackgroundMask(Y, width, height, radius, t, grad) ==
  LET I == buildIntegralImage(Y, width, height)
      bgAt(j) ==
        LET mean == meanOverBase(I, width, height, (j - 1) % width, (j - 1) \div width, radius)
        IN IF gated(grad, j) THEN 0
           ELSE IF Y[j] * mean.den * 100 >= mean.num * (100 - t) THEN 1 ELSE 0
  IN Force([j \in 1..(width * height) |-> bgAt(j)], width * height)

\* lines 222-245.  P[idx] is kept as the two facts that fix its side of 0.5:
\* whether z >= 0, that is val >= mean - k * std, and the gate as a ratio
computeSoftBackgroundProb(Y, width, height, radius, k, grad) ==
  LET tables == buildIntegralImages(Y, width, height)
      pAt(j) ==
        LET st == boxStats(tables.I, tables.I2, width, height,
                           (j - 1) % width, (j - 1) \div width, radius)
            below == st.sum - Y[j] * st.area
            spread == Max2(0, st.area * st.sum2 - st.sum * st.sum)
        IN [zNonNegative |-> below <= 0 \/ 10000 * below * below <= k * k * spread,
            gate |-> IF gated(grad, j)
                     THEN <<Min2(100 - GateThreshold, grad[j] - GateThreshold),
                            100 - GateThreshold>>
                     ELSE <<0, 1>>]
  IN Force([j \in 1..(width * height) |-> pAt(j)], width * height)

\* ---- Sobel gradient (single-precision field) ----
\* A luminance sample is an integer number of units of 2^-MantissaBits, so
\* Unit stands for 1.0.  A normalised value is [m, e], the single-precision
\* number m / 2^e with 2^(MantissaBits-1) <= m < 2^MantissaBits, or Zero.

Unit == Pow(2, MantissaBits)

Zero == [m |-> 0, e |-> 0]
One == [m |-> Pow(2, MantissaBits - 1), e |-> MantissaBits - 1]

\* the divisor floor 1e-6 as a ratio of units
MinDivisor == [num |-> Unit, den |-> 1000000]

RECURSIVE shiftOf(_, _)
shiftOf(n, s) == IF n < Pow(2, MantissaBits + s) THEN s ELSE shiftOf(n, s + 1)

\* store of the integer n into a Float32Array: nearest value with
\* MantissaBits significant bits, ties to the even mantissa
ToFloat32(n) ==
  LET unit == Pow(2, shiftOf(n, 0))
      q == n \div unit
      rem == n % unit
      up == 2 * rem > unit \/ (2 * rem = unit /\ q % 2 = 1)
  IN IF up THEN (q + 1) * unit ELSE q * unit

RECURSIVE scaleUp(_, _, _)
scaleUp(r, D, s) == IF r >= D THEN <<r, s>> ELSE scaleUp(2 * r, D, s + 1)

RECURSIVE longDivide(_, _, _, _)
longDivide(quot, rem, D, bits) ==
  IF bits = 0 THEN <<quot, rem>>
  ELSE IF 2 * rem >= D THEN longDivide(2 * quot + 1, 2 * rem - D, D, bits - 1)
       ELSE longDivide(2 * quot, 2 * rem, D, bits - 1)

\* store of the ratio N/D (0 < N < 2D) into a Float32Array
ToFloat32Ratio(N, D) ==
  LET n == scaleUp(N, D, 0)
      d == longDivide(1, n[1] - D, D, MantissaBits - 1)
      up == 2 * d[2] > D \/ (2 * d[2] = D /\ d[1] % 2 = 1)
      m == IF up THEN d[1] + 1 ELSE d[1]
      e == n[2] + MantissaBits - 1
  IN IF m = Pow(2, MantissaBits) THEN [m |-> m \div 2, e |-> e - 1] ELSE [m |-> m, e |-> e]

Abs(v) == IF v < 0 THEN -v ELSE v

\* the kernel applied at every pixel, coordinates replicated at the border
sobelMagReplicated(Y, width, height, x, y) ==
  LET at(xx, yy) == Y[Max2(0, Min2(height - 1, yy)) * width + Max2(0, Min2(width - 1, xx)) + 1]
      gx == -at(x - 1, y - 1) + at(x + 1, y - 1) - 2 * at(x - 1, y) + 2 * at(x + 1, y)
            - at(x - 1, y + 1) + at(x + 1, y + 1)
      gy == -at(x - 1, y - 1) - 2 * at(x, y - 1) - at(x + 1, y - 1)
            + at(x - 1, y + 1) + 2 * at(x, y + 1) + at(x + 1, y + 1)
  IN Abs(gx) + Abs(gy)

\* lines 56-66: |gx| + |gy| at the interior pixel (x, y), 0 on the border
sobelMag(Y, width, height, x, y) ==
  IF x < 1 \/ x >= width - 1 \/ y < 1 \/ y >= height - 1 THEN 0
  ELSE LET at(xx, yy) == Y[yy * width + xx + 1]
           a == at(x - 1, y - 1)
           b == at(x, y - 1)
           c == at(x + 1, y - 1)
           d == at(x - 1, y)
           f == at(x + 1, y)
           g == at(x - 1, y + 1)
           h == at(x, y + 1)
           i == at(x + 1, y + 1)
           gx == -a + c - 2 * d + 2 * f - g + i
           gy == -a - 2 * b - c + g + 2 * h + i
       IN Abs(gx) + Abs(gy)

sobelMags(Y, width, height) ==
  Force([j \in 1..(width * height) |->
           sobelMag(Y, width, height, (j - 1) % width, (j - 1) \div width)],
        width * height)

RECURSIVE MaxOf(_, _)
MaxOf(seq, k) == IF k = 0 THEN 0 ELSE Max2(seq[k], MaxOf(seq, k - 1))

\* lines 55, 67: maxG starts at 1e-6 and grows to the largest magnitude
maxGOf(mags) ==
  LET top == MaxOf(mags, Len(mags))
  IN IF top > MinDivisor.num \div MinDivisor.den THEN [num |-> top, den |-> 1]
     ELSE MinDivisor

\* line 72: G[j] = Math.min(1, G[j] * inv), g the stored single-precision magnitude
normalize(g, maxG) ==
  IF g = 0 THEN Zero
  ELSE IF g * maxG.den >= maxG.num THEN One
  ELSE ToFloat32Ratio(g * maxG.den, maxG.num)

sobelGradient(Y, width, height) ==
  LET mags == sobelMags(Y, width, height)
      maxG == maxGOf(mags)
  IN Force([j \in 1..(width * height) |-> normalize(ToFloat32(mags[j]), maxG)],
           width * height)

\* ---- Field indices touched by the stages ----
\* the 0-based indices a stage reads or writes in buffers of width * height

Pixels(width, height) == (0..(width - 1)) \X (0..(height - 1))

\* lines 110-121 and 141-151: the table cells written, read from the row
\* above, and read at the four corners of the query at (x, y)
integralTouched(width, height, x, y, r) ==
  { q[2] * width + q[1] : q \in Pixels(width, height) }
  \cup { (q[2] - 1) * width + q[1] : q \in { c \in Pixels(width, height) : c[2] > 0 } }
  \cup { yy * width + xx : xx \in {Max2(0, x - r), Min2(width - 1, x + r)},
                           yy \in {Max2(0, y - r), Min2(height - 1, y + r)} }

\* lines 56-72: the 3x3 neighbours of interior pixels, and every G[j]
sobelTouched(width, height) ==
  { (q[2] + d[2]) * width + q[1] + d[1] :
      q \in { c \in Pixels(width, height) :
                c[1] >= 1 /\ c[1] < width - 1 /\ c[2] >= 1 /\ c[2] < height - 1 },
      d \in (-1..1) \X (-1..1) }
  \cup 0..(width * height - 1)

\* the window read at x + i, y + j without the clamping
medianTouchedUnclamped(width, height, radius) ==
  { (q[2] + d[2]) * width + q[1] + d[1] :
      q \in Pixels(width, height), d \in (-radius..radius) \X (-radius..radius) }

\* lines 350-362: buf[ny * width + nx] with nx, ny clamped, out[y * width + x]
medianTouched(width, height, radius) ==
  { Min2(height - 1, Max2(0, q[2] + d[2])) * width + Min2(width - 1, Max2(0, q[1] + d[1])) :
      q \in Pixels(width, height), d \in (-radius..radius) \X (-radius..radius) }
  \cup { q[2] * width + q[1] : q \in Pixels(width, height) }

\* lines 270-284 and 292-306: mask[idx(nx, ny)] with nx, ny clamped, out[i]
morphologyTouched(width, height) ==
  { ClampX(height, q[2] + d[2]) * width + ClampX(width, q[1] + d[1]) :
      q \in Pixels(width, height), d \in (-1..1) \X (-1..1) }
  \cup { q[2] * width + q[1] : q \in Pixels(width, height) }

\* image-processing.ts lines 129-138: i and the neighbours whose guard holds
ditherTouched(w, h) ==
  UNION { {q[2] * w + q[1]}
          \cup (IF q[1] + 1 < w THEN {q[2] * w + q[1] + 1} ELSE {})
          \cup (IF q[1] - 1 >= 0 /\ q[2] + 1 < h THEN {q[2] * w + q[1] + w - 1} ELSE {})
          \cup (IF q[2] + 1 < h THEN {q[2] * w + q[1] + w} ELSE {})
          \cup (IF q[1] + 1 < w /\ q[2] + 1 < h THEN {q[2] * w + q[1] + w + 1} ELSE {}) :
          q \in Pixels(w, h) }

\* lines 494-498: idx = y * w + x over the box
regularTouched(w, bbox) ==
  { y * w + x : x \in bbox.left..(bbox.right - 1), y \in bbox.top..(bbox.bottom - 1) }

\* lines 371-388: py * width + px for the dots with px < width and py < height
brailleTouched(width, height, bbox) ==
  LET box == alignedBox(bbox)
  IN { py * width + px :
         px \in { c \in box.left..(box.right - 1) : c < width },
         py \in { c \in box.top..(box.bottom - 1) : c < height } }

\* the worker has received nothing and posted nothing
WorkerUnused == inbox = <<>> /\ call = Idle /\ served = <<>> /\ posted = <<>>

\* no AsciiWorld component is mounted
UIUnused == ui = Idle /\ runs = {} /\ timer = Idle /\ delivered = 0 /\ changes = 0

\* no stand-alone stage has been run
StagesUnused ==
  sobel = Idle /\ dither = Idle /\ access = Idle /\ local = Idle /\ poster = Idle

\* ---- Specification of the integral engine: a field is drawn, its table is
\* built, a window query is answered ----

Fields(width, height) == [1..(width * height) -> 0..MaxSample]

InitIntegral ==
  /\ \E width \in 1..MaxDim, height \in 1..MaxDim :
    \E Y \in Fields(width, height) :
      integ = [pc |-> "field", Y |-> Y, width |-> width, height |-> height,
               I |-> <<>>, x |-> 0, y |-> 0, r |-> 0, sum |-> 0]
  /\ morph = Idle /\ fbox = Idle /\ braille = Idle /\ WorkerUnused /\ UIUnused /\ StagesUnused

BuildIntegral ==
  /\ integ.pc = "field"
  /\ integ' = [integ EXCEPT !.pc = "built",
                            !.I = buildIntegralImage(integ.Y, integ.width, integ.height)]
  /\ UNCHANGED <<stageVars, morph, fbox, braille, workerVars, uiVars>>

RangeSum ==
  /\ integ.pc = "built"
  /\ \E x \in 0..(integ.width - 1), y \in 0..(integ.height - 1), r \in 0..MaxRadius :
       integ' = [integ EXCEPT !.pc = "queried", !.x = x, !.y = y, !.r = r,
                   !.sum = boxSum(integ.I, integ.width, integ.height, x, y, r)]
  /\ UNCHANGED <<stageVars, morph, fbox, braille, workerVars, uiVars>>

NextIntegral == BuildIntegral \/ RangeSum

SpecIntegral == InitIntegral /\ [][NextIntegral]_vars

\* ---- Specification of the morphological refiner: a mask, a gradient field
\* and a pass count are drawn, refineMasks is applied ----

GradLevels == {EdgeThreshold, EdgeThreshold + 1}

InitMorph ==
  /\ \E width \in 1..MaxMaskPixels, height \in 1..MaxMaskPixels, passes \in 0..MaxPasses :
       /\ width * height <= MaxMaskPixels
       /\ \E bgMask \in [1..(width * height) -> {0, 1}],
            grad \in [1..(width * height) -> GradLevels] :
           morph = [pc |-> "masks", bgMask |-> bgMask, grad |-> grad, width |-> width,
                    height |-> height, passes |-> passes, out |-> <<>>,
                    trace |-> <<>>]
  /\ integ = Idle /\ fbox = Idle /\ braille = Idle /\ WorkerUnused /\ UIUnused /\ StagesUnused

RefineMasks ==
  /\ morph.pc = "masks"
  /\ morph' = [morph EXCEPT !.pc = "refined",
                 !.out = refineMasks(morph.bgMask, morph.width, morph.height,
                                     morph.grad, morph.passes),
                 \* the (bg, fg) pairs the pass loop goes through; none when
                 \* passes <= 0 returns before fgMask is built
                 !.trace = IF morph.passes <= 0 THEN <<>>
                           ELSE refineTrace(<<[bg |-> morph.bgMask, fg |-> fgMaskOf(morph.bgMask)]>>,
                                            morph.width, morph.height,
                                            refineEdgeMask(morph.grad), 0, morph.passes)]
  /\ UNCHANGED <<stageVars, integ, fbox, braille, workerVars, uiVars>>

NextMorph == RefineMasks

SpecMorph == InitMorph /\ [][NextMorph]_vars

\* ---- Specification of the bounding box: an image size and a background
\* classification are drawn, computeForegroundBBox is applied ----

InitBBox ==
  /\ \E w \in 0..MaxBoxDim, h \in 0..MaxBoxDim :
       \E bg \in [1..(w * h) -> {0, 1}] :
         fbox = [pc |-> "image", w |-> w, h |-> h, bg |-> bg,
                 box |-> [left |-> 0, top |-> 0, right |-> 0, bottom |-> 0]]
  /\ integ = Idle /\ morph = Idle /\ braille = Idle /\ WorkerUnused /\ UIUnused /\ StagesUnused

ComputeForegroundBBox ==
  /\ fbox.pc = "image"
  /\ fbox' = [fbox EXCEPT !.pc = "boxed",
                          !.box = computeForegroundBBox(fbox.w, fbox.h, fbox.bg)]
  /\ UNCHANGED <<stageVars, integ, morph, braille, workerVars, uiVars>>

NextBBox == ComputeForegroundBBox

SpecBBox == InitBBox /\ [][NextBBox]_vars

\* ---- Specification of the worker: a request is posted to it, and
\* self.onmessage handles it and posts the text ----

White == <<255, 255, 255, 255>>
Clear == <<0, 0, 0, 0>>
Mid == <<100, 100, 100, 255>>
Palette == {White, Clear, Mid}

\* characterSets.standard, and the glyph list of the spec's scenario
StandardSet == <<64, 37, 35, 42, 43, 61, 45, 58, 46, 32>>
ScenarioSet == <<35, 46, 32>>

Gammas == {1, 2}

\* width * height <= n, a zero width or height included
ImageShapes(n) == { wh \in (0..n) \X (0..n) : wh[1] * wh[2] <= n }

Images(n) ==
  UNION { [width : {wh[1]}, height : {wh[2]}, data : [1..(wh[1] * wh[2]) -> Palette]] :
            wh \in ImageShapes(n) }

Tones == { [preprocess |-> FALSE, preprocessStrength |-> 0] }
           \cup [preprocess : {TRUE}, preprocessStrength : {-1, 0, 5, 10, 11}]

OptionRecords ==
  { [invertColors |-> inv, charSetName |-> name, charSet |-> cs, gamma |-> g,
     dithering |-> d, compactMode |-> c, preprocess |-> t.preprocess,
     preprocessStrength |-> t.preprocessStrength] :
      inv \in BOOLEAN, name \in {"standard", "braille"},
      cs \in {<<>>, ScenarioSet, StandardSet}, g \in Gammas,
      d \in BOOLEAN, c \in BOOLEAN, t \in Tones }

Event(img, options) ==
  [width |-> img.width, height |-> img.height, data |-> img.data, options |-> options]

InitWorker ==
  /\ WorkerUnused /\ UIUnused /\ StagesUnused
  /\ integ = Idle /\ morph = Idle /\ fbox = Idle /\ braille = Idle

\* the caller's worker.postMessage({ imageData, options })
PostMessage ==
  /\ inbox = <<>> /\ served = <<>>
  /\ \E img \in Images(MaxPixels), options \in OptionRecords :
       inbox' = <<Event(img, options)>>
  /\ UNCHANGED <<stageVars, integ, morph, fbox, braille, call, served, posted, uiVars>>

\* self.onmessage on the oldest message
OnMessage ==
  /\ inbox # <<>>
  /\ \E evt \in {Head(inbox)} : \E r \in {onmessage(evt)} :
        \* data is imageData.data itself (line 408) and is written in place
        \* (lines 410-416): imageData holds the request's buffer at the return
        /\ call' = [pc |-> "returned", evt |-> evt, data |-> r.data, Y |-> r.Y,
                    bgMask |-> r.bgMask, bbox |-> r.bbox, gray0 |-> r.gray0,
                    gray1 |-> r.gray1, grayBuf |-> r.grayBuf, imageData |-> r.data]
        /\ served' = Append(served, evt)
        /\ posted' = Append(posted, [ascii |-> r.ascii])
  /\ inbox' = Tail(inbox)
  /\ UNCHANGED <<stageVars, integ, morph, fbox, braille, uiVars>>

NextWorker == PostMessage \/ OnMessage

SpecWorker == InitWorker /\ [][NextWorker]_vars

\* ---- Specification of a worker session: the same worker handles several
\* requests one after the other ----

SessionImages == [width : {1}, height : {1}, data : [1..1 -> Palette]]

SessionOptions ==
  { [invertColors |-> inv, charSetName |-> cs[1], charSet |-> cs[2], gamma |-> 1,
     dithering |-> d, compactMode |-> FALSE, preprocess |-> FALSE,
     preprocessStrength |-> 0] :
      inv \in BOOLEAN, cs \in {<<"standard", ScenarioSet>>, <<"braille", <<>> >>},
      d \in BOOLEAN }

PostMessageInSession ==
  /\ inbox = <<>> /\ Len(served) < MaxSession
  /\ \E img \in SessionImages, options \in SessionOptions :
       inbox' = <<Event(img, options)>>
  /\ UNCHANGED <<stageVars, integ, morph, fbox, braille, call, served, posted, uiVars>>

NextSession == PostMessageInSession \/ OnMessage

SpecSession == InitWorker /\ [][NextSession]_vars

\* ---- Specification of the Braille packer: a tone buffer and a box are
\* drawn, generateBrailleArt is applied to the aligned box ----

BrailleShapes == { wh \in (1..MaxBraillePixels) \X (1..MaxBraillePixels) :
                     wh[1] * wh[2] <= MaxBraillePixels }

\* tone buffers with one dark and one bright level around the threshold
BrailleBuffers(n) ==
  { [i \in 1..n |-> IF i \in on THEN lv[2] ELSE lv[1]] :
      on \in SUBSET (1..n), lv \in {0, 127} \X {128, 255} }

InitBraille ==
  /\ \E wh \in BrailleShapes :
       \E grayBuf \in BrailleBuffers(wh[1] * wh[2]),
          left \in 0..(wh[1] - 1), top \in 0..(wh[2] - 1) :
         \E right \in (left + 1)..wh[1], bottom \in (top + 1)..wh[2] :
           braille = [pc |-> "tone", grayBuf |-> grayBuf, width |-> wh[1], height |-> wh[2],
                      bbox |-> alignedBox([left |-> left, top |-> top,
                                           right |-> right, bottom |-> bottom]),
                      art |-> <<>>]
  /\ WorkerUnused /\ UIUnused /\ StagesUnused
  /\ integ = Idle /\ morph = Idle /\ fbox = Idle

GenerateBrailleArt ==
  /\ braille.pc = "tone"
  /\ braille' = [braille EXCEPT !.pc = "packed",
                   !.art = generateBrailleArt(braille.grayBuf, braille.width,
                                              braille.height, braille.bbox)]
  /\ UNCHANGED <<stageVars, integ, morph, fbox, workerVars, uiVars>>

NextBraille == GenerateBrailleArt

SpecBraille == InitBraille /\ [][NextBraille]_vars

\* ---- Specification of the AsciiWorld component: state changes start the
\* conversion effect, whose runs decode, arm the debounce timer and post to
\* the worker; the worker's answers are stored in asciiArt ----

NoImage == "null"
Sources == {"blob:a", "blob:b"}
Dark == <<40, 40, 40, 255>>

\* the decoded sources are uniformly coloured square images
SourceColor(src) == IF src = "blob:a" THEN Mid ELSE Dark

BinarySet == <<49, 48, 32>>

characterSets(name) ==
  CASE name = "standard" -> StandardSet
    [] name = "binary" -> BinarySet
    [] name = "braille" -> <<>>

CharSetNames == {"standard", "binary", "braille"}

\* lines 249-286: the canvas the source is drawn on (char metrics 8 x 16)
Rasterize(c) ==
  LET isBraille == c.charSetName = "braille"
      cols == c.detail
      rows == Max2(1, MathRound(cols, 2))
      canvasCols == IF isBraille THEN cols * 2 ELSE cols
      canvasRows == IF isBraille THEN rows * 4 ELSE rows
  IN [width |-> canvasCols, height |-> canvasRows,
      data |-> [i \in 1..(canvasCols * canvasRows) |-> SourceColor(c.imageSrc)]]

\* lines 287-296, with the values of the states the model never changes
OptionsOf(c) ==
  [invertColors |-> c.invertColors, charSetName |-> c.charSetName,
   charSet |-> characterSets(c.charSetName), gamma |-> 1, dithering |-> TRUE,
   compactMode |-> c.compactMode, preprocess |-> FALSE, preprocessStrength |-> 0]

\* the conversion effect after a render with state st: nothing without an
\* image, otherwise a new run() holding the render's values
ConversionEffect(st, id, rs) ==
  IF st.imageSrc = NoImage THEN rs
  ELSE rs \cup {[id |-> id, imageSrc |-> st.imageSrc, invertColors |-> st.invertColors,
                 charSetName |-> st.charSetName, compactMode |-> st.compactMode,
                 detail |-> st.detail]}

\* the compactMode effect (lines 167-177)
CompactEffect(st) ==
  IF st.compactMode
  THEN [st EXCEPT !.charSetName = "braille", !.detail = DetailCompact, !.invertColors = FALSE]
  ELSE [st EXCEPT !.charSetName = "standard", !.detail = DetailStandard, !.invertColors = TRUE]

\* lines 303-309: clearTimeout(debounceRef.current) when the ref is set (a
\* timer that has fired or was cleared is no longer pending: nothing to
\* clear), then debounceRef.current = setTimeout(postToAscii, 200).
\* t.pending are the browser's pending timers with the time each has waited
\* so far, t.ref is debounceRef.current; t.cancelled and t.fired record the
\* timers that clearTimeout removed and that ran
armDebounceNoClear(t, id, evt) ==
  [t EXCEPT !.pending = @ \cup {[id |-> id, evt |-> evt, age |-> 0]},
            !.ref = id]

armDebounce(t, id, evt) ==
  [t EXCEPT !.pending = { p \in @ : p.id # t.ref } \cup {[id |-> id, evt |-> evt, age |-> 0]},
            !.cancelled = @ \cup { [id |-> p.id, age |-> p.age] :
                                      p \in { q \in t.pending : q.id = t.ref } },
            !.ref = id]

NoTimers == [pending |-> {}, ref |-> 0, cancelled |-> {}, fired |-> {}]

InitUI ==
  /\ ui = [imageSrc |-> NoImage, asciiArt |-> <<>>, invertColors |-> TRUE,
           charSetName |-> "standard", compactMode |-> FALSE, detail |-> DetailStandard,
           \* generating: the server action of a submitted prompt is in flight;
           \* awaiting: the output was cleared and no image has been provided since
           generating |-> FALSE, awaiting |-> FALSE]
  /\ runs = {} /\ timer = NoTimers /\ delivered = 0 /\ changes = 0
  /\ WorkerUnused /\ StagesUnused
  /\ integ = Idle /\ morph = Idle /\ fbox = Idle /\ braille = Idle

\* a state change st of the component, and the effects of the render
Render(st) ==
  /\ changes < MaxChanges
  /\ changes' = changes + 1
  /\ ui' = st
  /\ runs' = ConversionEffect(st, 2 * changes + 1, runs)
  /\ UNCHANGED <<stageVars, timer, delivered, workerVars, integ, morph, fbox, braille>>

HandleFileChange ==
  \E src \in Sources \ {ui.imageSrc} :
    Render([ui EXCEPT !.imageSrc = src, !.awaiting = FALSE])

\* lines 342-349: the text is cleared and generationCount, a dependency of
\* the conversion effect, is incremented (the submit button is disabled
\* while the action is pending)
HandleFormSubmit ==
  /\ ~ui.generating
  /\ Render([ui EXCEPT !.asciiArt = <<>>, !.generating = TRUE, !.awaiting = TRUE])

\* lines 141-148: the generated image arrives, setImageSrc(imageDataUri)
GenerateArrives ==
  /\ ui.generating
  /\ \E src \in Sources \ {ui.imageSrc} :
       Render([ui EXCEPT !.imageSrc = src, !.generating = FALSE, !.awaiting = FALSE])

SetInvertColors == Render([ui EXCEPT !.invertColors = ~ui.invertColors])

\* the character set select is disabled while compact mode is on (line 575)
SetCharSetName ==
  /\ ~ui.compactMode
  /\ \E name \in CharSetNames \ {ui.charSetName} : Render([ui EXCEPT !.charSetName = name])

\* the switch: a render with the new compactMode, whose compactMode effect
\* sets three more states and so causes a second render
SetCompactMode ==
  LET st1 == [ui EXCEPT !.compactMode = ~ui.compactMode]
      st2 == CompactEffect(st1)
      rs1 == ConversionEffect(st1, 2 * changes + 1, runs)
  IN /\ changes < MaxChanges
     /\ changes' = changes + 1
     /\ ui' = st2
     /\ runs' = IF st2 = st1 THEN rs1 ELSE ConversionEffect(st2, 2 * changes + 2, rs1)
     /\ UNCHANGED <<stageVars, timer, delivered, workerVars, integ, morph, fbox, braille>>

ResetImage == Render([ui EXCEPT !.imageSrc = NoImage, !.asciiArt = <<>>, !.awaiting = TRUE])

\* a run() gets past its awaits: it draws, reads the canvas, clears the
\* pending timer and arms its own
RunDecoded ==
  \E r \in runs :
    /\ runs' = runs \ {r}
    /\ timer' = armDebounce(timer, r.id, Event(Rasterize(r), OptionsOf(r)))
    /\ UNCHANGED <<stageVars, ui, delivered, changes, workerVars, integ, morph, fbox, braille>>

\* half a debounce delay passes for every pending timer
Tick ==
  /\ \E p \in timer.pending : p.age < DebounceDelay
  /\ timer' = [timer EXCEPT !.pending =
                  { [p EXCEPT !.age = Min2(DebounceDelay, p.age + DebounceDelay \div 2)] :
                      p \in timer.pending }]
  /\ UNCHANGED <<stageVars, ui, runs, delivered, changes, workerVars,
                 integ, morph, fbox, braille>>

\* a timer that has waited the whole delay fires, then or later:
\* postToAscii() of the run that armed it
DebounceFires ==
  /\ \E p \in timer.pending :
       /\ p.age >= DebounceDelay
       /\ inbox' = Append(inbox, p.evt)
       /\ timer' = [timer EXCEPT !.pending = @ \ {p},
                                 !.fired = @ \cup {[id |-> p.id, age |-> p.age,
                                                     latest |-> timer.ref]}]
  /\ UNCHANGED <<stageVars, ui, runs, delivered, changes, call, served, posted,
                 integ, morph, fbox, braille>>

\* w.onmessage in the component: setAsciiArt(ascii)
WorkerAnswer ==
  /\ delivered < Len(posted)
  /\ ui' = [ui EXCEPT !.asciiArt = posted[delivered + 1].ascii]
  /\ delivered' = delivered + 1
  /\ UNCHANGED <<stageVars, runs, timer, changes, workerVars, integ, morph, fbox, braille>>

NextUI ==
  \/ HandleFileChange \/ HandleFormSubmit \/ GenerateArrives
  \/ SetInvertColors \/ SetCharSetName \/ SetCompactMode
  \/ ResetImage \/ RunDecoded \/ Tick \/ DebounceFires \/ OnMessage \/ WorkerAnswer

SpecUI == InitUI /\ [][NextUI]_vars

\* ---- sobelGradient on single-precision luminance fields ----

\* 0, one unit (2^-24, below the 1e-6 floor) and 1.0
SobelLevels == {0, 1, Unit}

SobelShapes ==
  { wh \in (1..MaxSobelPixels) \X (1..MaxSobelPixels) : wh[1] * wh[2] <= MaxSobelPixels }

\* fields of one base level in which at most MaxLit samples differ
SobelFields(n) ==
  UNION { UNION { { [j \in 1..n |-> IF j \in lit THEN v[j] ELSE base] :
                      v \in [lit -> SobelLevels \ {base}] } :
                   lit \in { S \in SUBSET (1..n) : Cardinality(S) <= MaxLit } } :
          base \in SobelLevels }

InitSobel ==
  /\ \E wh \in SobelShapes :
       \E Y \in SobelFields(wh[1] * wh[2]) :
         sobel = [pc |-> "field", Y |-> Y, width |-> wh[1], height |-> wh[2]]
  /\ dither = Idle /\ access = Idle /\ local = Idle /\ poster = Idle
  /\ integ = Idle /\ morph = Idle /\ fbox = Idle /\ braille = Idle
  /\ WorkerUnused /\ UIUnused

SobelGradient ==
  /\ sobel.pc = "field"
  /\ sobel' = [pc |-> "done", Y |-> sobel.Y, width |-> sobel.width, height |-> sobel.height,
               raw |-> sobelMags(sobel.Y, sobel.width, sobel.height),
               G |-> sobelGradient(sobel.Y, sobel.width, sobel.height)]
  /\ UNCHANGED <<poster, dither, access, local, integ, morph, fbox, braille, workerVars, uiVars>>

NextSobel == SobelGradient

SpecSobel == InitSobel /\ [][NextSobel]_vars

\* ---- floydSteinbergRefine on its own ----

\* a dark level and white
DitherLevels == {9, 255}

\* the quantisation steps of a 3-glyph list, of the 10-glyph list and of a
\* list of 19 glyphs (step 13, the largest step with a level above 255)
DitherSteps == {stepOf(setLenOf(ScenarioSet)), stepOf(setLenOf(StandardSet)), stepOf(19)}

DitherShapes ==
  { wh \in (1..MaxDitherPixels) \X (1..MaxDitherPixels) : wh[1] * wh[2] <= MaxDitherPixels }

InitDither ==
  /\ \E wh \in DitherShapes :
       \E grayBuf \in [1..(wh[1] * wh[2]) -> DitherLevels],
          bgMask \in [1..(wh[1] * wh[2]) -> {0, 1}],
          step \in DitherSteps :
         dither = [pc |-> "called", grayBuf |-> grayBuf, bgMask |-> bgMask,
                   w |-> wh[1], h |-> wh[2], step |-> step]
  /\ sobel = Idle /\ access = Idle /\ local = Idle /\ poster = Idle
  /\ integ = Idle /\ morph = Idle /\ fbox = Idle /\ braille = Idle
  /\ WorkerUnused /\ UIUnused

FloydSteinbergRefine ==
  /\ dither.pc = "called"
  /\ dither' = [pc |-> "returned", bgMask |-> dither.bgMask, w |-> dither.w, h |-> dither.h,
                step |-> dither.step,
                trace |-> floydSteinbergTrace(<<dither.grayBuf>>, dither.bgMask, dither.w,
                                              dither.h, dither.step, 0),
                grayBuf |-> floydSteinbergRefine(dither.grayBuf, dither.bgMask, dither.w,
                                                 dither.h, dither.step)]
  /\ UNCHANGED <<poster, sobel, access, local, integ, morph, fbox, braille, workerVars, uiVars>>

NextDither == FloydSteinbergRefine

SpecDither == InitDither /\ [][NextDither]_vars

\* ---- computeLocalMean and the two classifiers on one field ----

LocalLevels == {0, 1, 8}

\* t = 0, 0.15 and k = 0, 0.18, in hundredths
LocalT == {0, 15}
LocalK == {0, 18}

LocalShapes ==
  { wh \in (1..MaxLocalPixels) \X (1..MaxLocalPixels) : wh[1] * wh[2] <= MaxLocalPixels }

\* no gradient field, or one with samples at the gate threshold and above it
LocalGrads(n) == {<<>>} \cup [1..n -> {GateThreshold, GateThreshold + 40}]

InitLocal ==
  /\ \E wh \in LocalShapes :
       \E Y \in [1..(wh[1] * wh[2]) -> LocalLevels], grad \in LocalGrads(wh[1] * wh[2]),
          radius \in 0..MaxRadius, t \in LocalT, k \in LocalK :
         local = [pc |-> "field", Y |-> Y, width |-> wh[1], height |-> wh[2],
                  radius |-> radius, t |-> t, k |-> k, grad |-> grad]
  /\ sobel = Idle /\ dither = Idle /\ access = Idle /\ poster = Idle
  /\ integ = Idle /\ morph = Idle /\ fbox = Idle /\ braille = Idle
  /\ WorkerUnused /\ UIUnused

LocalInputs ==
  [Y |-> local.Y, width |-> local.width, height |-> local.height, radius |-> local.radius,
   t |-> local.t, k |-> local.k, grad |-> local.grad]

ComputeLocalMean ==
  /\ local.pc = "field"
  /\ \E out \in {computeLocalMean(local.Y, local.width, local.height, local.radius)} :
       local' = [pc |-> "mean", means |-> out] @@ LocalInputs
  /\ UNCHANGED <<poster, sobel, dither, access, integ, morph, fbox, braille, workerVars, uiVars>>

ComputeLocalBackgroundMask ==
  /\ local.pc = "field"
  /\ \E I \in {buildIntegralImage(local.Y, local.width, local.height)} :
       local' = [pc |-> "hard",
                 means |-> [j \in 1..(local.width * local.height) |->
                              meanOverBase(I, local.width, local.height,
                                           (j - 1) % local.width, (j - 1) \div local.width,
                                           local.radius)],
                 bg |-> computeLocalBackgroundMask(local.Y, local.width, local.height,
                                                   local.radius, local.t, local.grad)]
                @@ LocalInputs
  /\ UNCHANGED <<poster, sobel, dither, access, integ, morph, fbox, braille, workerVars, uiVars>>

ComputeSoftBackgroundProb ==
  /\ local.pc = "hard"
  /\ \E tables \in {buildIntegralImages(local.Y, local.width, local.height)} :
       local' = [pc |-> "both", bg |-> local.bg,
                 means |-> [j \in 1..(local.width * local.height) |->
                              LET st == boxStats(tables.I, tables.I2, local.width,
                                                 local.height, (j - 1) % local.width,
                                                 (j - 1) \div local.width, local.radius)
                              IN [num |-> st.sum, den |-> st.area]],
                 P |-> computeSoftBackgroundProb(local.Y, local.width, local.height,
                                                 local.radius, local.k, local.grad)]
                @@ LocalInputs
  /\ UNCHANGED <<poster, sobel, dither, access, integ, morph, fbox, braille, workerVars, uiVars>>

NextLocal == ComputeLocalMean \/ ComputeLocalBackgroundMask \/ ComputeSoftBackgroundProb

SpecLocal == InitLocal /\ [][NextLocal]_vars

\* ---- The stages' index ranges: a frame, a box and a radius are drawn, one
\* stage is run ----

AccessShapes ==
  { wh \in (1..MaxAccessPixels) \X (1..MaxAccessPixels) : wh[1] * wh[2] <= MaxAccessPixels }

\* the boxes the handler can pass on for a frame
AccessBoxes(w, h) ==
  { selectBBox(c, w, h, mask) : c \in BOOLEAN, mask \in [1..(w * h) -> {0, 1}] }

InitAccess ==
  /\ \E wh \in AccessShapes :
       \E bbox \in AccessBoxes(wh[1], wh[2]), radius \in 0..MaxRadius :
         access = [pc |-> "frame", width |-> wh[1], height |-> wh[2], bbox |-> bbox,
                   radius |-> radius, touched |-> {}]
  /\ sobel = Idle /\ dither = Idle /\ local = Idle /\ poster = Idle
  /\ integ = Idle /\ morph = Idle /\ fbox = Idle /\ braille = Idle
  /\ WorkerUnused /\ UIUnused

TouchIntegral ==
  /\ access.pc = "frame"
  /\ \E q \in Pixels(access.width, access.height) :
       access' = [access EXCEPT !.pc = "integral", !.touched =
                   integralTouched(access.width, access.height, q[1], q[2], access.radius)]
  /\ UNCHANGED <<poster, sobel, dither, local, integ, morph, fbox, braille, workerVars, uiVars>>

TouchSobel ==
  /\ access.pc = "frame"
  /\ access' = [access EXCEPT !.pc = "sobel", !.touched = sobelTouched(access.width, access.height)]
  /\ UNCHANGED <<poster, sobel, dither, local, integ, morph, fbox, braille, workerVars, uiVars>>

TouchMedian ==
  /\ access.pc = "frame"
  /\ access' = [access EXCEPT !.pc = "median", !.touched =
       medianTouched(access.width, access.height, access.radius)]
  /\ UNCHANGED <<poster, sobel, dither, local, integ, morph, fbox, braille, workerVars, uiVars>>

TouchMorphology ==
  /\ access.pc = "frame"
  /\ access' = [access EXCEPT !.pc = "morphology", !.touched =
       morphologyTouched(access.width, access.height)]
  /\ UNCHANGED <<poster, sobel, dither, local, integ, morph, fbox, braille, workerVars, uiVars>>

TouchDither ==
  /\ access.pc = "frame"
  /\ access' = [access EXCEPT !.pc = "dither", !.touched = ditherTouched(access.width, access.height)]
  /\ UNCHANGED <<poster, sobel, dither, local, integ, morph, fbox, braille, workerVars, uiVars>>

TouchRegular ==
  /\ access.pc = "frame"
  /\ access' = [access EXCEPT !.pc = "regular", !.touched = regularTouched(access.width, access.bbox)]
  /\ UNCHANGED <<poster, sobel, dither, local, integ, morph, fbox, braille, workerVars, uiVars>>

TouchBraille ==
  /\ access.pc = "frame"
  /\ access' = [access EXCEPT !.pc = "braille", !.touched =
       brailleTouched(access.width, access.height, access.bbox)]
  /\ UNCHANGED <<poster, sobel, dither, local, integ, morph, fbox, braille, workerVars, uiVars>>

NextAccess ==
  \/ TouchIntegral \/ TouchSobel \/ TouchMedian \/ TouchMorphology
  \/ TouchDither \/ TouchRegular \/ TouchBraille

SpecAccess == InitAccess /\ [][NextAccess]_vars

\* ---- Properties ----

\* ---- The posterize step of the preprocess stage on its own ----

\* the samples next to the decision points of the 2- and 3-level rungs
PosterSamples == {0, 63, 64, 127, 128, 191, 192, 255}

PosterBuffers ==
  [1..1 -> 0..255] \cup UNION { [1..n -> PosterSamples] : n \in 2..MaxPosterPixels }

InitPosterize ==
  /\ \E buf \in PosterBuffers, compactMode \in BOOLEAN,
        charSetName \in {"standard", "braille"} :
       poster = [pc |-> "copied", preGray |-> buf, compactMode |-> compactMode,
                 charSetName |-> charSetName, levels |-> 0, out |-> <<>>, again |-> <<>>]
  /\ sobel = Idle /\ dither = Idle /\ access = Idle /\ local = Idle
  /\ integ = Idle /\ morph = Idle /\ fbox = Idle /\ braille = Idle
  /\ WorkerUnused /\ UIUnused

\* lines 448-454: posterizeGray(preGray, 2 or 3)
PosterizeGray ==
  /\ poster.pc = "copied"
  /\ poster' = [poster EXCEPT !.pc = "posterized",
                   !.levels = posterizeLevels(poster.compactMode),
                   !.out = posterizeGray(poster.preGray, posterizeLevels(poster.compactMode))]
  /\ UNCHANGED <<sobel, dither, access, local, integ, morph, fbox, braille,
                 workerVars, uiVars>>

\* the same step applied to its own output
PosterizeAgain ==
  /\ poster.pc = "posterized"
  /\ poster' = [poster EXCEPT !.pc = "repeated",
                   !.again = posterizeGray(poster.out, poster.levels)]
  /\ UNCHANGED <<sobel, dither, access, local, integ, morph, fbox, braille,
                 workerVars, uiVars>>

NextPosterize == PosterizeGray \/ PosterizeAgain

SpecPosterize == InitPosterize /\ [][NextPosterize]_vars

RECURSIVE SumSeq(_, _)
SumSeq(f, S) ==
  IF S = {} THEN 0
  ELSE LET e == CHOOSE e \in S : TRUE IN f[e] + SumSeq(f, S \ {e})

BruteWindowSum(Y, width, height, x, y, r) ==
  SumSeq(Y, { yy * width + xx + 1 :
                xx \in Max2(0, x - r)..Min2(width - 1, x + r),
                yy \in Max2(0, y - r)..Min2(height - 1, y + r) })

\* C1: boxSum over the table of buildIntegralImage equals the brute-force sum
\* of the field over the clipped window, first row and first column included.
C1_BoxSumIsBruteForce ==
  integ.pc = "queried" =>
    integ.sum = BruteWindowSum(integ.Y, integ.width, integ.height,
                               integ.x, integ.y, integ.r)

\* C6: every pixel whose gradient is above the edge threshold has the same
\* value in the mask returned by refineMasks as in the input mask.
C6_EdgePixelsKept ==
  morph.pc = "refined" =>
    \A i \in DOMAIN morph.grad :
      morph.grad[i] > EdgeThreshold => morph.out[i] = morph.bgMask[i]

\* a refinement that changed some pixel while an edge pixel next to a
\* differing neighbour (so an ungated erosion or dilation would flip it) exists
C6_Witness ==
  /\ morph.pc = "refined"
  /\ morph.passes >= 1
  /\ morph.out # morph.bgMask
  /\ \E i, j \in DOMAIN morph.grad :
       /\ morph.grad[i] > EdgeThreshold
       /\ morph.bgMask[i] # morph.bgMask[j]

\* C9: the returned box satisfies 0 <= left <= right <= width and
\* 0 <= top <= bottom <= height.
C9_BoxWithinFrame ==
  fbox.pc = "boxed" =>
    /\ 0 <= fbox.box.left /\ fbox.box.left <= fbox.box.right /\ fbox.box.right <= fbox.w
    /\ 0 <= fbox.box.top /\ fbox.box.top <= fbox.box.bottom /\ fbox.box.bottom <= fbox.h

\* a trimmed box whose margin had to be clamped at the frame
C9_Witness ==
  /\ fbox.pc = "boxed"
  /\ \E i \in DOMAIN fbox.bg : fbox.bg[i] = 0
  /\ \E i \in DOMAIN fbox.bg : fbox.bg[i] = 1
  /\ fbox.box.left = 0 /\ fbox.box.right = fbox.w
  /\ fbox.box.top > 0

\* C10: when every pixel is background the full frame is returned.
C10_AllBackgroundFullFrame ==
  (fbox.pc = "boxed" /\ \A i \in DOMAIN fbox.bg : fbox.bg[i] = 1) =>
    fbox.box = [left |-> 0, top |-> 0, right |-> fbox.w, bottom |-> fbox.h]

C10_Witness ==
  /\ fbox.pc = "boxed"
  /\ fbox.w >= 2 /\ fbox.h >= 2
  /\ \A i \in DOMAIN fbox.bg : fbox.bg[i] = 1
  /\ fbox.box = [left |-> 0, top |-> 0, right |-> fbox.w, bottom |-> fbox.h]

CountOf(text, c) == Cardinality({ k \in DOMAIN text : text[k] = c })

\* number of rows of the grid a request is answered with
RowsOf(c) ==
  IF c.evt.options.charSetName = "braille"
  THEN Ceil(c.bbox.bottom, 4) - Floor(c.bbox.top, 4)
  ELSE c.bbox.bottom - c.bbox.top

LastText == posted[Len(posted)].ascii

\* C2: in regular and in Braille mode the text has (rows - 1) newlines and
\* does not end with a newline.
C2_NewlinesBetweenRowsOnly ==
  (call # Idle /\ call.evt.width >= 1 /\ call.evt.height >= 1) =>
    /\ CountOf(LastText, Newline) = RowsOf(call) - 1
    /\ LastText # <<>> /\ LastText[Len(LastText)] # Newline

\* C3: a request with width = 0 or height = 0 gets no { ascii } response.
C3_ZeroSizeRejected ==
  \A k \in DOMAIN served :
    (served[k].width = 0 \/ served[k].height = 0) => Len(posted) < k

NearestLevel(i, step) ==
  CHOOSE k \in 0..256 : 2 * k * step - step <= 2 * i /\ 2 * i < 2 * k * step + step

ExpectedGlyph(c, idx) ==
  LET glyphList == c.evt.options.charSet
      n == Len(glyphList)
      step == Max2(1, 255 \div n)
  IN IF c.bgMask[idx] = 1 THEN Space
     ELSE glyphList[Max2(0, Min2(n - 1, NearestLevel(c.grayBuf[idx], step))) + 1]

\* C8: in regular mode with n >= 1 glyphs every foreground pixel of the box is
\* rendered as glyphList[clamp(round(i/step), 0, n-1)] and every background
\* pixel as a space; for ['#','.',' '] 0 gives '#', 90 '.', 200 ' '.
C8_GlyphMapping ==
  /\ stepOf(setLenOf(ScenarioSet)) = 85
  /\ charMap(ScenarioSet, 3, 85, 0) = 35
  /\ charMap(ScenarioSet, 3, 85, 90) = 46
  /\ charMap(ScenarioSet, 3, 85, 200) = 32
  /\ (call # Idle /\ call.evt.options.charSetName # "braille"
        /\ Len(call.evt.options.charSet) >= 1) =>
       LET bw == call.bbox.right - call.bbox.left
       IN \A y \in call.bbox.top..(call.bbox.bottom - 1),
             x \in call.bbox.left..(call.bbox.right - 1) :
            LastText[(y - call.bbox.top) * (bw + 1) + (x - call.bbox.left) + 1]
              = ExpectedGlyph(call, y * call.evt.width + x + 1)

\* a regular answer with a background pixel whose intensity maps to a visible
\* glyph, and a foreground pixel whose level is rounded upwards
C8_Witness ==
  /\ call # Idle /\ call.evt.options.charSetName # "braille"
  /\ call.evt.options.charSet = ScenarioSet
  /\ \E y \in call.bbox.top..(call.bbox.bottom - 1) :
       \E x1, x2 \in call.bbox.left..(call.bbox.right - 1) :
         LET i == y * call.evt.width + x1 + 1
             j == y * call.evt.width + x2 + 1
             bw == call.bbox.right - call.bbox.left
             at(x) == LastText[(y - call.bbox.top) * (bw + 1) + (x - call.bbox.left) + 1]
         IN /\ call.bgMask[i] = 1 /\ call.grayBuf[i] < 40 /\ at(x1) = Space
            /\ call.bgMask[j] = 0 /\ (call.grayBuf[j] % 85) * 2 >= 85
            /\ at(x2) = ScenarioSet[call.grayBuf[j] \div 85 + 2]

\* dot number of the sub-pixel at (col, row) of a cell
DotOf(col, row) == IF col = 0 THEN <<1, 2, 3, 7>>[row + 1] ELSE <<4, 5, 6, 8>>[row + 1]

RECURSIVE SumOver(_, _)
SumOver(f, S) ==
  IF S = {} THEN 0
  ELSE LET e == CHOOSE e \in S : TRUE IN f[e] + SumOver(f, S \ {e})

ExpectedCell(b, x, y) ==
  LET lit == { cr \in (0..1) \X (0..3) :
                 /\ x + cr[1] < b.width /\ y + cr[2] < b.height
                 /\ b.grayBuf[(y + cr[2]) * b.width + x + cr[1] + 1] > 127 }
  IN 10240 + SumOver([cr \in lit |-> Pow(2, DotOf(cr[1], cr[2]) - 1)], lit)

CellAt(b, cx, cy) ==
  b.art[cy * ((b.bbox.right - b.bbox.left) \div 2 + 1) + cx + 1]

BrailleCells(b) ==
  (0..((b.bbox.right - b.bbox.left) \div 2 - 1))
    \X (0..((b.bbox.bottom - b.bbox.top) \div 4 - 1))

\* C7: every Braille character is U+2800 plus the dots of the in-buffer
\* sub-pixels with luminance > 127 (column 0 -> dots 1,2,3,7, column 1 -> dots
\* 4,5,6,8); an all-255 in-bounds cell is U+28FF, an all-0 cell U+2800.
C7_BraillePacking ==
  braille.pc = "packed" =>
    \A c \in BrailleCells(braille) :
      LET x == braille.bbox.left + 2 * c[1]
          y == braille.bbox.top + 4 * c[2]
          inside == { cr \in (0..1) \X (0..3) :
                        x + cr[1] < braille.width /\ y + cr[2] < braille.height }
          lum(cr) == braille.grayBuf[(y + cr[2]) * braille.width + x + cr[1] + 1]
      IN /\ CellAt(braille, c[1], c[2]) = ExpectedCell(braille, x, y)
         /\ (Cardinality(inside) = 8 /\ \A cr \in inside : lum(cr) = 255)
              => CellAt(braille, c[1], c[2]) = 10495
         /\ (\A cr \in inside : lum(cr) = 0) => CellAt(braille, c[1], c[2]) = 10240

\* an in-bounds cell with only dots 7 and 4 lit, next to nothing else
C7_Witness ==
  /\ braille.pc = "packed"
  /\ braille.width = 2 /\ braille.height = 4
  /\ braille.grayBuf = <<0, 128, 0, 0, 0, 0, 128, 0>>
  /\ braille.art = <<10240 + 64 + 8, Newline>>

\* no decode, timer, worker message or answer is pending
Drained == runs = {} /\ timer.pending = {} /\ inbox = <<>> /\ delivered = Len(posted)

\* C4: once everything pending has drained, the displayed text is the render
\* of the most recently issued (image, options).
C4_LastRequestWins ==
  (ui # Idle /\ Drained /\ ui.imageSrc # NoImage) =>
    ui.asciiArt = onmessage(Event(Rasterize(ui), OptionsOf(ui))).ascii

FullFrame(c) == [left |-> 0, top |-> 0, right |-> c.evt.width, bottom |-> c.evt.height]

\* C11: with compactMode = true the box used for rendering is (0, 0, width,
\* height) whatever the image, the glyph set and the other options are, and
\* the grid covers the whole frame.
C11_CompactKeepsFullFrame ==
  (call # Idle /\ call.evt.options.compactMode) =>
    /\ call.bbox = FullFrame(call)
    /\ (call.evt.width >= 1 /\ call.evt.height >= 1) =>
         Len(LastText) - CountOf(LastText, Newline) =
           IF call.evt.options.charSetName = "braille"
           THEN Ceil(call.evt.height, 4) * Ceil(call.evt.width, 2)
           ELSE call.evt.height * call.evt.width

\* a compact request whose foreground box is smaller than the frame
C11_Witness ==
  /\ call # Idle /\ call.evt.options.compactMode
  /\ call.evt.width >= 2
  /\ computeForegroundBBox(call.evt.width, call.evt.height, call.bgMask) # FullFrame(call)
  /\ call.bbox = FullFrame(call)

InvertPixel(p) == <<255 - p[1], 255 - p[2], 255 - p[3], p[4]>>

\* the pixel values the request's stages are to work from
SourcePixels(c) ==
  [i \in 1..Len(c.evt.data) |->
     IF c.evt.options.invertColors THEN InvertPixel(c.evt.data[i]) ELSE c.evt.data[i]]

\* C12: with invertColors = true luminance, background mask and box are all
\* computed from the pixels (255-r, 255-g, 255-b, a), with invertColors =
\* false from the original pixels; opaque red becomes opaque cyan.
C12_InversionComesFirst ==
  /\ invertData(<< <<255, 0, 0, 255>> >>) = << <<0, 255, 255, 255>> >>
  /\ call # Idle =>
       LET src == SourcePixels(call)
           w == call.evt.width
           h == call.evt.height
           mask == buildBgMask(src, w, h, detectBackground(src, w, h))
       IN /\ \A i \in 1..Len(src) : call.data[i] = src[i]
          /\ call.Y = computeLuminance(src, w, h)
          /\ call.bgMask = mask
          /\ ~call.evt.options.compactMode => call.bbox = computeForegroundBBox(w, h, mask)

\* an inverting request without cropping override whose image has a
\* transparent, a white and a grey pixel
C12_Witness ==
  /\ call # Idle /\ call.evt.options.invertColors /\ ~call.evt.options.compactMode
  /\ \E i, j, k \in 1..Len(call.evt.data) :
       /\ call.evt.data[i] = Clear /\ call.data[i] = <<255, 255, 255, 0>>
       /\ call.evt.data[j] = White /\ call.data[j] = <<0, 0, 0, 255>>
       /\ call.evt.data[k] = Mid /\ call.Y[k] = 155000
  /\ computeLuminance(call.evt.data, call.evt.width, call.evt.height) # call.Y

AtMostOne(f) == f.e >= MantissaBits \/ f.m <= Pow(2, f.e)

\* the largest single-precision number below 1
OneBelow == [m |-> Pow(2, MantissaBits) - 1, e |-> MantissaBits]

OnBorder(width, height, j) ==
  LET x == (j - 1) % width
      y == (j - 1) \div width
  IN x = 0 \/ y = 0 \/ x = width - 1 \/ y = height - 1

SobelRange ==
  /\ \A j \in DOMAIN sobel.G : sobel.G[j].m >= 0 /\ AtMostOne(sobel.G[j])
  /\ \A j \in DOMAIN sobel.G : OnBorder(sobel.width, sobel.height, j) => sobel.G[j] = Zero
  /\ MaxOf(sobel.raw, Len(sobel.raw)) = 0 => \A j \in DOMAIN sobel.G : sobel.G[j] = Zero

Receivers(w, h, k) ==
  LET x == (k - 1) % w
      y == (k - 1) \div w
      inside == { d \in { <<1, 0, 7>>, <<-1, 1, 3>>, <<0, 1, 5>>, <<1, 1, 1>> } :
                    x + d[1] \in 0..(w - 1) /\ y + d[2] \in 0..(h - 1) }
  IN { <<(y + d[2]) * w + x + d[1] + 1, d[3]>> : d \in inside }

\* the error of the step at pixel k and the change that step makes at pixel j
ErrAt(k) ==
  LET old == dither.trace[k][k]
  IN old - NearestLevel(old, dither.step) * dither.step

ChangeAt(k, j) == dither.trace[k + 1][j] - dither.trace[k][j]

TotalChange(k) ==
  LET n == dither.w * dither.h
  IN SumSeq([j \in 1..n |-> IF j = k THEN 0 ELSE Abs(ChangeAt(k, j))], 1..n)

\* every step changes only foreground receivers, each by at most its share of
\* the error rounded to 8 bits and never against the error's sign
SharesBounded ==
  \A k \in 1..(dither.w * dither.h) :
    dither.bgMask[k] = 0 =>
      /\ \A j \in 1..(dither.w * dither.h) :
           (j # k /\ ChangeAt(k, j) # 0) =>
             \E r \in Receivers(dither.w, dither.h, k) : r[1] = j /\ dither.bgMask[j] = 0
      /\ \A r \in Receivers(dither.w, dither.h, k) :
           /\ 32 * Abs(ChangeAt(k, r[1])) <= 2 * Abs(ErrAt(k)) * r[2] + 16
           /\ ChangeAt(k, r[1]) * ErrAt(k) >= 0

\* C14 as stated: per-neighbour shares bounded, and the changes of one step
\* add up to at most |err|.
C14_TotalWithinError ==
  dither.pc = "returned" =>
    /\ SharesBounded
    /\ \A k \in 1..(dither.w * dither.h) :
         dither.bgMask[k] = 0 => TotalChange(k) <= Abs(ErrAt(k))

\* C14 amended: per-neighbour shares bounded, and the changes of one step add
\* up to at most |err| + 2, the four stores rounding by at most 1/2 each.
C14_TotalWithinErrorPlusRounding ==
  dither.pc = "returned" =>
    /\ SharesBounded
    /\ \A k \in 1..(dither.w * dither.h) :
         dither.bgMask[k] = 0 => TotalChange(k) <= Abs(ErrAt(k)) + 2

\* a step whose four receivers together change by more than its error
C14_Witness ==
  /\ dither.pc = "returned"
  /\ \E k \in 1..(dither.w * dither.h) :
       /\ dither.bgMask[k] = 0 /\ ErrAt(k) # 0
       /\ \A r \in Receivers(dither.w, dither.h, k) : ChangeAt(k, r[1]) # 0
       /\ Cardinality(Receivers(dither.w, dither.h, k)) = 4
       /\ TotalChange(k) > Abs(ErrAt(k))

\* C15: a regular-mode request with an empty glyph list is answered, with a
\* grid of the box's dimensions in which every character is a space.
C15_EmptyGlyphListGivesSpaces ==
  (call # Idle /\ call.evt.options.charSetName # "braille"
     /\ call.evt.options.charSet = <<>>) =>
    LET bw == call.bbox.right - call.bbox.left
        bh == call.bbox.bottom - call.bbox.top
    IN /\ Len(posted) = Len(served)
       /\ CountOf(LastText, Space) = bw * bh
       /\ \A y \in 0..(bh - 1), x \in 0..(bw - 1) : LastText[y * (bw + 1) + x + 1] = Space
       /\ \A k \in DOMAIN LastText : LastText[k] \in {Space, Newline}

\* an empty glyph list applied to a box of two rows with a foreground pixel,
\* dithering requested
C15_Witness ==
  /\ call # Idle /\ call.evt.options.charSetName # "braille"
  /\ call.evt.options.charSet = <<>> /\ call.evt.options.dithering
  /\ call.bbox.bottom - call.bbox.top >= 2
  /\ \E k \in DOMAIN call.bgMask : call.bgMask[k] = 0
  /\ CountOf(LastText, Space) >= 2

\* C16: with the braille glyph set the text is the one the same request gets
\* with an empty glyph list and dithering off, and the tone buffer that is
\* packed is the one the tone stage left, never a dithered one.
C16_BrailleIgnoresGlyphsAndDithering ==
  (call # Idle /\ call.evt.options.charSetName = "braille") =>
    LET plain == [call.evt EXCEPT !.options.charSet = <<>>, !.options.dithering = FALSE]
    IN /\ call.grayBuf = call.gray1
       /\ LastText = onmessage(plain).ascii

\* a braille request with the 10-glyph list and dithering on, whose tone
\* buffer error diffusion would have changed
C16_Witness ==
  /\ call # Idle /\ call.evt.options.charSetName = "braille"
  /\ call.evt.options.dithering /\ call.evt.options.charSet = StandardSet
  /\ call.evt.width >= 1 /\ call.evt.height >= 1
  /\ floydSteinbergRefine(call.gray1, call.bgMask, call.evt.width, call.evt.height,
                          stepOf(setLenOf(StandardSet))) # call.gray1
  /\ call.grayBuf = call.gray1

\* C17: at every pixel that is not gated, the hard mask marks background
\* exactly when the soft probability is at least 0.5.
C17_ClassifiersAgree ==
  local.pc = "both" =>
    \A j \in 1..(local.width * local.height) :
      ~gated(local.grad, j) => (local.bg[j] = 1 <=> local.P[j].zNonNegative)

\* number of pixels of the image within radius r of pixel j
ClippedCount(width, height, j, r) ==
  LET x == (j - 1) % width
      y == (j - 1) \div width
  IN Cardinality({ q \in (0..(width - 1)) \X (0..(height - 1)) :
                     Abs(q[1] - x) <= r /\ Abs(q[2] - y) <= r })

\* C18: each windowed mean (computeLocalMean, the hard mask's, boxStats')
\* divides by the pixel count of the clipped window, and on a constant
\* field the mean is that constant at every pixel.
C18_MeanOverClippedWindow ==
  local.pc \in {"mean", "hard", "both"} =>
    \A j \in 1..(local.width * local.height) :
      /\ local.means[j].den = ClippedCount(local.width, local.height, j, local.radius)
      /\ (\A i \in 1..(local.width * local.height) : local.Y[i] = local.Y[1]) =>
           local.means[j].num = local.Y[1] * local.means[j].den

\* C19: when the handler returns, every byte of the request's pixel buffer
\* has the value it had when the request arrived.
C19_RequestBufferUnchanged ==
  call # Idle =>
    \A i \in 1..Len(call.evt.data) : call.imageData[i] = call.evt.data[i]

PostedRequests == served \o inbox

\* C21: every request posted to the worker with compactMode = true has
\* charSetName = "braille" (the claim's statement about switching compact
\* mode off is the mirror image and fails on the mirrored interleaving).
C21_CompactRequestsAreBraille ==
  ui # Idle =>
    \A i \in 1..Len(PostedRequests) :
      PostedRequests[i].options.compactMode =>
        PostedRequests[i].options.charSetName = "braille"

\* C22: before the first pass and after every complete pass of refineMasks
\* the foreground mask is the complement of the background mask at every
\* pixel, and the returned mask is the background mask after the last pass.
C22_MasksComplementary ==
  (morph.pc = "refined" /\ morph.passes >= 1) =>
    /\ Len(morph.trace) = morph.passes + 1
    /\ \A p \in 1..Len(morph.trace) : \A i \in DOMAIN morph.bgMask :
         morph.trace[p].fg[i] = 1 - morph.trace[p].bg[i]
    /\ morph.out = morph.trace[Len(morph.trace)].bg

\* two passes that change the mask, the second one too, with an edge pixel
\* that an ungated step would have flipped
C22_Witness ==
  /\ morph.pc = "refined" /\ morph.passes = 2
  /\ morph.trace[2].bg # morph.trace[1].bg
  /\ \E i \in DOMAIN morph.grad :
       /\ morph.grad[i] > EdgeThreshold
       /\ dilateMaskUngated(morph.bgMask, morph.width, morph.height,
                            refineEdgeMask(morph.grad))[i] # morph.bgMask[i]

\* C23: floydSteinbergRefine never changes a background pixel, at no step and
\* in the result, and a foreground receiver gets the share of its own weight
\* whether or not the step's other receivers exist or are background.
C23_BackgroundUntouched ==
  dither.pc = "returned" =>
    /\ \A j \in 1..(dither.w * dither.h) :
         dither.bgMask[j] # 0 =>
           /\ dither.grayBuf[j] = dither.trace[1][j]
           /\ \A k \in 1..Len(dither.trace) : dither.trace[k][j] = dither.trace[1][j]
    /\ \A k \in 1..(dither.w * dither.h) :
         dither.bgMask[k] = 0 =>
           \A r \in Receivers(dither.w, dither.h, k) :
             dither.bgMask[r[1]] = 0 =>
               dither.trace[k + 1][r[1]] =
                 ToUint8Clamped(16 * dither.trace[k][r[1]] + ErrAt(k) * r[2], 16)

\* a foreground step with an error, one background and one foreground receiver
\* inside the image and one receiver outside it; the background value is no
\* multiple of the step
C23_Witness ==
  /\ dither.pc = "returned"
  /\ \E k \in 1..(dither.w * dither.h) :
       /\ dither.bgMask[k] = 0 /\ ErrAt(k) # 0
       /\ Cardinality(Receivers(dither.w, dither.h, k)) < 4
       /\ \E r1, r2 \in Receivers(dither.w, dither.h, k) :
            /\ dither.bgMask[r1[1]] # 0 /\ dither.grayBuf[r1[1]] % dither.step # 0
            /\ dither.bgMask[r2[1]] = 0 /\ ChangeAt(k, r2[1]) # 0

SetMin(S) == CHOOSE m \in S : \A n \in S : m <= n
SetMax(S) == CHOOSE m \in S : \A n \in S : m >= n

\* the columns and the rows that hold a non-background pixel
ForegroundColumns == { x \in 0..(fbox.w - 1) : ~colIsBackground(fbox.bg, fbox.w, fbox.h, x) }
ForegroundRows == { y \in 0..(fbox.h - 1) : ~rowIsBackground(fbox.bg, fbox.w, y) }

\* C25: when some pixel is not background, the returned half-open box is the
\* smallest rectangle around the non-background pixels grown by one pixel on
\* each side and clamped to the frame; every non-background pixel is inside.
C25_TightBoxPlusMargin ==
  (fbox.pc = "boxed" /\ \E i \in DOMAIN fbox.bg : fbox.bg[i] = 0) =>
    /\ fbox.box.left = Max2(0, SetMin(ForegroundColumns) - 1)
    /\ fbox.box.right = Min2(fbox.w, SetMax(ForegroundColumns) + 2)
    /\ fbox.box.top = Max2(0, SetMin(ForegroundRows) - 1)
    /\ fbox.box.bottom = Min2(fbox.h, SetMax(ForegroundRows) + 2)
    /\ \A i \in DOMAIN fbox.bg :
         fbox.bg[i] = 0 =>
           /\ (i - 1) % fbox.w \in fbox.box.left..(fbox.box.right - 1)
           /\ (i - 1) \div fbox.w \in fbox.box.top..(fbox.box.bottom - 1)

\* non-background pixels in two rows of the last column with a background
\* pixel between them: the columns to the left are stripped and the margin
\* is kept on the left, clamped at the right, at the top and at the bottom
C25_Witness ==
  /\ fbox.pc = "boxed"
  /\ ForegroundColumns = {fbox.w - 1} /\ Cardinality(ForegroundRows) >= 2
  /\ \E y \in (SetMin(ForegroundRows) + 1)..(SetMax(ForegroundRows) - 1) :
       y \notin ForegroundRows
  /\ fbox.box.left = fbox.w - 2 /\ fbox.box.left >= 1
  /\ fbox.box.right = fbox.w
  /\ fbox.box.top = 0 /\ fbox.box.bottom = fbox.h

\* the posterized and median-filtered copy of the gamma-corrected buffer
SimplifiedOf(c) ==
  medianFilterGray(posterizeGray(c.gray0, IF c.evt.options.compactMode THEN 2 ELSE 3),
                   c.evt.width, c.evt.height, 1)

\* C26: with preprocess enabled every tone sample is the rounded blend
\* pre * (1 - b) + orig * b, b = clamp(preprocessStrength / 10, 0, 1);
\* strength <= 0 gives the simplified buffer, strength >= 10 the
\* gamma-corrected one and the text of the same request with preprocess off.
C26_BlendOfSimplifiedAndOriginal ==
  (call # Idle /\ call.evt.options.preprocess) =>
    LET s == call.evt.options.preprocessStrength
        b10 == Max2(0, Min2(10, s))
        pre == SimplifiedOf(call)
    IN /\ \A i \in DOMAIN call.gray0 :
            /\ 10 * call.gray1[i] - (pre[i] * (10 - b10) + call.gray0[i] * b10) \in -4..5
            /\ call.gray1[i] \in 0..255
       /\ s <= 0 => call.gray1 = pre
       /\ s >= 10 =>
            /\ call.gray1 = call.gray0
            /\ LastText = onmessage([call.evt EXCEPT !.options.preprocess = FALSE]).ascii

\* strength 11 on a frame whose simplified buffer differs from the
\* gamma-corrected one
C26_Witness ==
  /\ call # Idle /\ call.evt.options.preprocess
  /\ call.evt.options.preprocessStrength = 11
  /\ SimplifiedOf(call) # call.gray0
  /\ call.gray1 = call.gray0

\* every sample is the 8-bit value of the rung k * 255 / (levels - 1) nearest
\* to the input sample, and a second application changes nothing
NearestRungs ==
  /\ \A i \in DOMAIN poster.preGray :
       \E k \in 0..(poster.levels - 1) :
         /\ poster.out[i] = ToUint8Clamped(k * 255, poster.levels - 1)
         /\ \A k2 \in 0..(poster.levels - 1) :
              Abs(poster.preGray[i] * (poster.levels - 1) - k * 255)
                <= Abs(poster.preGray[i] * (poster.levels - 1) - k2 * 255)
  /\ poster.pc = "repeated" => poster.again = poster.out

\* C27 as stated: the posterize step uses 2 levels when the request produces
\* Braille output (charSetName = "braille") and 3 otherwise; every sample is
\* the nearest rung; posterizing again changes nothing.
C27_LevelsFollowBrailleOutput ==
  poster.pc \in {"posterized", "repeated"} =>
    /\ poster.levels = IF poster.charSetName = "braille" THEN 2 ELSE 3
    /\ NearestRungs

\* C27 amended: the posterize step uses 2 levels when compactMode is true and
\* 3 otherwise, whatever the character set; every sample is the nearest
\* rung; posterizing again changes nothing.
C27_LevelsFollowCompactMode ==
  poster.pc \in {"posterized", "repeated"} =>
    /\ poster.levels = IF poster.compactMode THEN 2 ELSE 3
    /\ NearestRungs

\* a Braille request outside compact mode: three levels, a sample sent to
\* the middle rung 127.5, stored as 128 and kept by the second application
C27_Witness ==
  /\ poster.pc = "repeated"
  /\ poster.charSetName = "braille" /\ ~poster.compactMode
  /\ poster.preGray = <<100>> /\ poster.out = <<128>> /\ poster.again = <<128>>

\* C28: at most one conversion timer is pending, and it is the one scheduled
\* last; a timer that is still pending when the next one is scheduled is
\* cancelled and never posts; a request is posted only by the timer scheduled
\* last, no sooner than 200 ms after that timer was scheduled.
C28_Debounce ==
  ui # Idle =>
    /\ Cardinality(timer.pending) <= 1
    /\ \A p \in timer.pending : p.id = timer.ref
    /\ \A f \in timer.fired :
         /\ f.age >= DebounceDelay
         /\ f.latest = f.id
         /\ \A c \in timer.cancelled : c.id # f.id
    /\ Len(PostedRequests) = Cardinality(timer.fired)

\* a timer cancelled 100 ms after it was scheduled by the scheduling of the
\* next one, which has fired and posted the only request
C28_Witness ==
  /\ ui # Idle
  /\ \E c \in timer.cancelled : c.age > 0 /\ c.age < DebounceDelay
  /\ Cardinality(timer.fired) = 1 /\ Len(PostedRequests) = 1
  /\ \E f \in timer.fired : \E c \in timer.cancelled : c.id < f.id

\* the quantisation level of foreground pixel k: round(old / step) of the
\* value it held when it was visited
LevelAt(k) == NearestLevel(dither.trace[k][k], dither.step)

\* C29 as stated: after floydSteinbergRefine every foreground pixel holds a
\* value in 0..255 that is an exact multiple of step, and round(value / step)
\* is the pixel's quantisation level.
C29_ForegroundOnStepMultiples ==
  dither.pc = "returned" =>
    \A k \in 1..(dither.w * dither.h) :
      dither.bgMask[k] = 0 =>
        /\ dither.grayBuf[k] \in 0..255
        /\ dither.grayBuf[k] % dither.step = 0
        /\ MathRound(dither.grayBuf[k], dither.step) = LevelAt(k)

\* C29 amended: every foreground pixel holds level * step, or 255 when
\* level * step exceeds 255 (then no multiple of step); in both cases
\* round(value / step) is the pixel's quantisation level.
C29_ForegroundOnClampedLevels ==
  dither.pc = "returned" =>
    \A k \in 1..(dither.w * dither.h) :
      dither.bgMask[k] = 0 =>
        /\ dither.grayBuf[k] \in 0..255
        /\ dither.grayBuf[k] = Min2(255, LevelAt(k) * dither.step)
        /\ MathRound(dither.grayBuf[k], dither.step) = LevelAt(k)

\* a foreground pixel whose level lies above 255 and is stored as 255, next
\* to one that diffusion moved onto another multiple of the step
C29_Witness ==
  /\ dither.pc = "returned"
  /\ \E k, j \in 1..(dither.w * dither.h) :
       /\ dither.bgMask[k] = 0 /\ LevelAt(k) * dither.step > 255
       /\ dither.grayBuf[k] = 255 /\ 255 % dither.step # 0
       /\ dither.bgMask[j] = 0 /\ dither.grayBuf[j] % dither.step = 0
       /\ dither.trace[j][j] # dither.trace[1][j]

\* C30: from the moment resetImage or a prompt submission has cleared the
\* output until a new image is provided, the stored text is empty (no timer,
\* request or answer of the previous image sets it again).
C30_ClearedOutputStaysEmpty ==
  (ui # Idle /\ ui.awaiting) => ui.asciiArt = <<>>

====
